---------------------------- MODULE Spec2Model ----------------------------
(***************************************************************************)
(* A model of the second-reading Hansard pipeline (src/python): the entity *)
(* resolver (db_async.py, db_sqlite.py), the sitting ingestor and the      *)
(* orchestrator (batch_process.py), and the reconciliation jobs            *)
(* (merge_bills.py, cleanup_duplicates.py).                                *)
(*                                                                         *)
(* The store is a set of rows per table.  A missing value (SQL NULL,       *)
(* Python None) is 0; ids, dates and timestamps are positive naturals.     *)
(* A text that may be missing (a summary) is NoText or Text(s).             *)
(* Titles are sequences of one-character strings, so that lower() and      *)
(* trim() are computed and not assumed.                                    *)
(***************************************************************************)
EXTENDS Naturals, Integers, Sequences, FiniteSets, TLC

VARIABLES
    sittings,    \* table sessions/sittings: rows [id, date, sitting_no]
    members,     \* table members: rows [id, name]
    bills,       \* table bills
    sections,    \* table sections
    attendance,  \* table session_attendance / sitting_attendance
    speakers,    \* table section_speakers
    nextId,      \* per-table auto id counters
    ministries,  \* table ministries, the reference set: rows [id, acronym]
    call,        \* the last completed resolver call: its arguments and result
    firstRet,    \* per title, the id the first find_or_create_bill call returned
    merge,       \* merge_bills.merge(): its position and locals
    clean,       \* cleanup_duplicates.cleanup(): its position, arguments and locals
    before,      \* the bills and sections tables when a reconciliation job started
    gen,         \* the summary pass: its position, flags, targets and last generation
    orch,        \* batch_process(): its position and locals
    task,        \* per date, the state of its ingest_session task
    source,      \* the record source: per date, the sitting it returns
    ing,         \* per date, the locals of ingest_session and of its sub-tasks
    sem,         \* DB_SEMAPHORE: the permits available
    hist,        \* per completed run of batch_process, its dates and the row counts
    missed,      \* per member name, the lookups that found no row of that name
    lim          \* of the section tasks of one chunk, how many are at each await

storeVars == <<sittings, members, bills, sections, attendance, speakers, nextId>>
refVars == <<ministries>>
resolverVars == <<call, firstRet>>

jobVars == <<merge, clean, before, gen>>

orchVars == <<orch, task>>
ingestVars == <<source, ing, sem, hist, missed, lim>>

vars == <<storeVars, refVars, resolverVars, jobVars, orchVars, ingestVars>>

None == 0

----------------------------------------------------------------------------
(* Bounds of the model. *)

\* ministries of the reference table
MaxMinistry == 2
\* sitting dates a resolver call may supply
MaxDate == 2

\* rows the bills table may hold (caps the auto id)
MaxBillRows == 4

\* the days a date range given to batch_process may span
MaxBatchDates == 6

\* the dates the detailed ingestion runs over; the dates and the runs of
\* batch_process when it is run again on one store
MaxIngestDates == 2
MaxRerunDates == 1
\* the dates of a range in which some dates have nothing to ingest
MaxSkipDates == 3
MaxRuns == 2
\* the sittings and members sequential attendance and speaker calls refer to
MaxLinkSittings == 1
MaxLinkMembers == 2
MaxLinkSections == 2
\* the sitting numbers and formats the record source reports for a date
MaxSittingNo == 2
MaxFormat == 2
\* the member rows sequential resolver calls may create
MaxMemberRows == 4
\* the sections of the chunk whose tasks SpecLimiter counts
MaxLimSections == 11
\* the sections of the sitting whose phases SpecPhases counts
MaxPhaseSections == 22
\* the sub-tasks of one gather (attendance, sections of a chunk, speakers)
MaxTasks == 3

\* sections in the store when cleanup_duplicates starts
MaxCleanSections == 3
\* the runs of cleanup_duplicates on one store
MaxCleanRuns == 2
\* the runs of merge_bills on one store
MaxMergeRuns == 2
\* the dates a run of batch_process with mode flags may range over
MaxModeDates == 2
\* the dates of the run whose progress SpecLive follows
MaxLiveDates == 6
\* the sections of the sitting that run ingests
MaxLiveSections == 11

\* bills and sections in the store when merge_bills starts
MaxMergeBills == 3
MaxMergeSections == 2
\* distinct created_at timestamps of the rows a reconciliation job finds
MaxCreatedAt == 2

MinistryIds == 1..MaxMinistry
DateVals == 1..MaxDate

----------------------------------------------------------------------------
(* Titles and their normalisation: lower(trim(title)), merge_bills.py:15. *)

lower(c) == CASE c = "F" -> "f"
              [] c = "G" -> "g"
              [] c = "Minister" -> "minister"
              [] c = "Prime" -> "prime"
              [] c = "Office" -> "office"
              [] c = "Finance" -> "finance"
              [] c = "Health" -> "health"
              [] c = "Second" -> "second"
              [] OTHER -> c

\* s.lower()
LowerSeq(s) == [i \in 1..Len(s) |-> lower(s[i])]

\* needle in hay
Contains(hay, needle) ==
    \E i \in 0..(Len(hay) - Len(needle)) : SubSeq(hay, i + 1, i + Len(needle)) = needle

RECURSIVE ltrim(_)
ltrim(s) == IF s # <<>> /\ Head(s) = " " THEN ltrim(Tail(s)) ELSE s

RECURSIVE rtrim(_)
rtrim(s) == IF s # <<>> /\ s[Len(s)] = " " THEN rtrim(SubSeq(s, 1, Len(s) - 1)) ELSE s

trim(s) == rtrim(ltrim(s))

NormTitle(t) == LET s == trim(t) IN [i \in 1..Len(s) |-> lower(s[i])]

\* the titles the record source hands out: "F", "f " (a variant of the same
\* normalised title) and "G"
TitleF == <<"F">>
TitleFv == <<"f", " ">>
TitleG == <<"G">>
Titles == {TitleF, TitleFv, TitleG}

----------------------------------------------------------------------------
(* The bills table and find_or_create_bill. *)

\* a value that is a string or None (a column that is text or NULL): a
\* string is the sequence of its characters
NoText == [none |-> TRUE, text |-> <<>>]
Text(s) == [none |-> FALSE, text |-> s]

BillRow(id, title, ministry_id, first_reading_date, first_reading_sitting_id, created_at) ==
    [id |-> id, title |-> title, ministry_id |-> ministry_id,
     first_reading_date |-> first_reading_date,
     first_reading_sitting_id |-> first_reading_sitting_id,
     created_at |-> created_at, summary |-> NoText]

\* (mutant) the lookup sees only bills that already have a first reading
SelectBillsByTitle_mut(title) ==
    {b \in bills : b.title = title /\ b.first_reading_date # None}

\* SELECT id, first_reading_date, ministry_id FROM bills WHERE title = $1
SelectBillsByTitle(title) == {b \in bills : b.title = title}

\* (mutant) the ministry is written whenever one is supplied
NeedMinistryUpdate_mut(row, ministry_id) ==
    ministry_id # None

\* "if ministry_id and not existing_ministry"
NeedMinistryUpdate(row, ministry_id) ==
    ministry_id # None /\ row.ministry_id = None

\* "if first_reading_date and not existing_first_reading"
NeedFirstReadingUpdate(row, first_reading_date) ==
    first_reading_date # None /\ row.first_reading_date = None

\* UPDATE bills SET ministry_id = $1 WHERE id = $2
UpdateBillMinistry(B, bill_id, ministry_id) ==
    {IF b.id = bill_id THEN [b EXCEPT !.ministry_id = ministry_id] ELSE b : b \in B}

\* UPDATE bills SET first_reading_date = .., first_reading_sitting_id = .. WHERE id = ..
UpdateBillFirstReading(B, bill_id, first_reading_date, first_reading_sitting_id) ==
    {IF b.id = bill_id
        THEN [b EXCEPT !.first_reading_date = first_reading_date,
                       !.first_reading_sitting_id = first_reading_sitting_id]
        ELSE b : b \in B}

\* INSERT INTO bills (...) VALUES (...) RETURNING id
InsertBill(B, id, title, ministry_id, first_reading_date, first_reading_sitting_id) ==
    B \cup {BillRow(id, title, ministry_id, first_reading_date,
                    first_reading_sitting_id, id)}

\* The row as the found branch of find_or_create_bill leaves it.
BackfillBill(B, row, ministry_id, first_reading_date, first_reading_sitting_id) ==
    LET B1 == IF NeedMinistryUpdate(row, ministry_id)
                 THEN UpdateBillMinistry(B, row.id, ministry_id) ELSE B
    IN IF NeedFirstReadingUpdate(row, first_reading_date)
          THEN UpdateBillFirstReading(B1, row.id, first_reading_date,
                                      first_reading_sitting_id)
          ELSE B1

----------------------------------------------------------------------------
(* The sittings and sections tables. *)

SittingRow(id, date, sitting_no, format) ==
    [id |-> id, date |-> date, sitting_no |-> sitting_no, format |-> format]

SectionRow(id, sitting_id, ministry_id, bill_id, category, section_type, title, section_order, created_at) ==
    [id |-> id, sitting_id |-> sitting_id, ministry_id |-> ministry_id,
     bill_id |-> bill_id, category |-> category, section_type |-> section_type,
     title |-> title, section_order |-> section_order, created_at |-> created_at,
     summary |-> NoText]

----------------------------------------------------------------------------
(* The store after construction (schema created, no rows). *)

\* the ministries reference table as seeded with the schema
Ministries == {[id |-> 1, acronym |-> "MOH"], [id |-> 2, acronym |-> "MOF"]}

StoreInit ==
    /\ ministries = Ministries
    /\ sittings = {}
    /\ members = {}
    /\ bills = {}
    /\ sections = {}
    /\ attendance = {}
    /\ speakers = {}
    /\ nextId = [t \in {"members", "bills", "sections"} |-> 1]

NoCall == [op |-> "none"]

ResolverIdle ==
    /\ call = NoCall
    /\ firstRet = [t \in Titles |-> None]

\* a line a job prints: what it reports and the count it gives
Report(what, n) == [what |-> what, n |-> n]

MergeIdleRec == [pc |-> "idle", groups |-> {}, master |-> None, dups |-> {},
                 masters |-> {}, out |-> <<>>, runs |-> 0, prev_deleted |-> 0]

\* range: the date range of the run; runs: the runs before this one; prev:
\* the range of the run before this one and the rows it deleted
CleanIdleRec == [pc |-> "idle", keep_newest |-> FALSE, sitting_ids |-> {},
                 out |-> <<>>, range |-> <<>>, runs |-> 0,
                 prev |-> [range |-> <<>>, deleted |-> 0]]

\* no generation yet
NoGen == [kind |-> "none", target |-> None,
          outcome |-> [raises |-> FALSE, content |-> NoText],
          ret |-> NoText, wrote |-> FALSE]

GenIdleRec == [pc |-> "idle", pipeline |-> "none", only_blanks |-> FALSE,
               sitting_ids |-> {}, todo |-> {}, last |-> NoGen]

JobsIdle ==
    /\ merge = MergeIdleRec
    /\ clean = CleanIdleRec
    /\ before = [bills |-> {}, sections |-> {}]
    /\ gen = GenIdleRec

BatchDates == 1..MaxBatchDates

\* the mode flags of batch_process, all off by default
DefaultMode == [no_summaries |-> FALSE, only_summaries |-> FALSE,
                only_blank_summaries |-> FALSE, summarize_members |-> FALSE]

\* ids: ingested_session_ids; left, passed: the sittings the summary loop has
\* still to process and those it has processed; pool: the store pool
OrchIdleRec == [pc |-> "idle", start_date |-> None, end_date |-> None,
                dates |-> <<>>, i |-> 0, ids |-> <<>>, mode |-> DefaultMode,
                left |-> {}, passed |-> {}, pool |-> "open"]

OrchIdle ==
    /\ orch = OrchIdleRec
    /\ task = [d \in BatchDates |-> "pending"]

LimIdleRec == [phase |-> "idle", att |-> 0, n |-> 0, i |-> 0, spk |-> 0,
               find |-> 0, wait |-> 0, insert |-> 0, link |-> 0, done |-> 0]

\* DB_SEMAPHORE = asyncio.Semaphore(10)
DB_SEMAPHORE == 10

IngestIdle ==
    /\ source = <<>>
    /\ ing = <<>>
    /\ sem = DB_SEMAPHORE
    /\ hist = <<>>
    /\ missed = [n \in {} |-> 0]
    /\ lim = LimIdleRec

----------------------------------------------------------------------------
(* SpecResolver: the entity resolver called sequentially, one call after   *)
(* the other has returned (db_sqlite.py is synchronous; db_async.py when   *)
(* each call is awaited before the next is issued).                        *)

\* the id of the sitting of a date: sittings are upserted on their date
\* (batch_process.py:153-157), one sitting per date
SittingOfDate(d) == d

\* process_section passes first_reading_date and first_reading_session_id
\* together for a BI section, the date and id of its own sitting, and
\* neither otherwise (batch_process.py:227-228)
FirstReadingArgs == {<<None, None>>} \cup {<<d, SittingOfDate(d)>> : d \in DateVals}

ResolverTitles == {TitleF, TitleFv}

BillCall(title, ministry_id, fr, ret, found) ==
    [op |-> "find_or_create_bill", title |-> title, ministry_id |-> ministry_id,
     first_reading_date |-> fr[1], first_reading_sitting_id |-> fr[2],
     ret |-> ret, found |-> found]

find_or_create_bill(title, ministry_id, fr) ==
    LET rows == SelectBillsByTitle(title) IN
    /\ IF rows # {}
          THEN \E row \in rows :
                 /\ bills' = BackfillBill(bills, row, ministry_id, fr[1], fr[2])
                 /\ nextId' = nextId
                 /\ call' = BillCall(title, ministry_id, fr, row.id, TRUE)
                 /\ firstRet' = IF firstRet[title] = None
                                   THEN [firstRet EXCEPT ![title] = row.id]
                                   ELSE firstRet
          ELSE /\ nextId.bills <= MaxBillRows
               /\ bills' = InsertBill(bills, nextId.bills, title, ministry_id,
                                      fr[1], fr[2])
               /\ nextId' = [nextId EXCEPT !.bills = @ + 1]
               /\ call' = BillCall(title, ministry_id, fr, nextId.bills, FALSE)
               /\ firstRet' = IF firstRet[title] = None
                                 THEN [firstRet EXCEPT ![title] = nextId.bills]
                                 ELSE firstRet
    /\ UNCHANGED <<sittings, members, sections, attendance, speakers, refVars,
                   jobVars, orchVars, ingestVars>>

ResolverInit == StoreInit /\ ResolverIdle /\ JobsIdle /\ OrchIdle /\ IngestIdle

ResolverNext ==
    \E title \in ResolverTitles, ministry_id \in MinistryIds \cup {None},
       fr \in FirstReadingArgs :
        find_or_create_bill(title, ministry_id, fr)

SpecResolver == ResolverInit /\ [][ResolverNext]_vars

----------------------------------------------------------------------------
(* C3: over any sequence of find_or_create_bill calls, a bill's ministry,  *)
(* first-reading date and first-reading sitting, once set, are never       *)
(* changed by a later call, whatever value that call supplies.             *)
C3_BackfillMonotone ==
    [][\A b \in bills : \A b2 \in bills' :
          b2.id = b.id =>
            /\ (b.ministry_id # None => b2.ministry_id = b.ministry_id)
            /\ (b.first_reading_date # None =>
                    b2.first_reading_date = b.first_reading_date)
            /\ (b.first_reading_sitting_id # None =>
                    b2.first_reading_sitting_id = b.first_reading_sitting_id)]_vars

\* a call has just found a bill and supplied a ministry and a first reading
\* that both differ from the stored ones
C3_Witness ==
    /\ call.op = "find_or_create_bill"
    /\ call.found
    /\ \E b \in bills :
          /\ b.id = call.ret
          /\ call.ministry_id # None /\ b.ministry_id # None
          /\ b.ministry_id # call.ministry_id
          /\ call.first_reading_date # None /\ b.first_reading_date # None
          /\ b.first_reading_date # call.first_reading_date
          /\ b.first_reading_sitting_id # call.first_reading_sitting_id

(* C4: repeated find_or_create_bill calls with one title keep exactly one  *)
(* bill row of that title, and every call returns the id the first call    *)
(* returned.                                                               *)
C4_BillIdempotent ==
    \A t \in Titles :
        firstRet[t] # None =>
            /\ Cardinality({b \in bills : b.title = t}) = 1
            /\ \A b \in bills : b.title = t => b.id = firstRet[t]
            /\ (call.op = "find_or_create_bill" /\ call.title = t
                    => call.ret = firstRet[t])

\* a second call of a title has returned (it found the row of the first)
C4_Witness ==
    /\ call.op = "find_or_create_bill"
    /\ call.found
    /\ firstRet[call.title] = call.ret
    /\ Cardinality(bills) = 2

----------------------------------------------------------------------------
(* SpecMerge: merge_bills.merge() run alone against a store that holds     *)
(* duplicate bills, one step per store call (each execute() takes its own  *)
(* pooled connection and commits on its own, db_async.py:28-34); the       *)
(* process may stop between any two store calls.                           *)

BillIdsOf(B) == {b.id : b \in B}

\* SELECT lower(trim(title)) as key, array_agg(id) ... GROUP BY .. HAVING COUNT(*) > 1
DuplicateGroups(B) ==
    LET keys == {NormTitle(b.title) : b \in B}
        grp(k) == {b.id : b \in {x \in B : NormTitle(x.title) = k}}
    IN {grp(k) : k \in {k2 \in keys : Cardinality(grp(k2)) > 1}}

\* (SELECT COUNT(*) FROM sections WHERE bill_id = b.id) as section_count
section_count(S, bill_id) == Cardinality({x \in S : x.bill_id = bill_id})

\* (mutant) oldest first, the section count ignored
SortsBefore_mut(S, a, b) ==
    a.created_at < b.created_at

\* ORDER BY section_count DESC, created_at ASC: a sorts strictly before b
SortsBefore(S, a, b) ==
    \/ section_count(S, a.id) > section_count(S, b.id)
    \/ /\ section_count(S, a.id) = section_count(S, b.id)
       /\ a.created_at < b.created_at

\* the rows candidates[0] may be (rows equal in both sort keys come in any order)
FirstCandidates(S, rows) ==
    {c \in rows : \A o \in rows : ~SortsBefore(S, o, c)}

\* (mutant) only the sections of the first duplicate are reassigned
MoveSections_mut(S, master_id, dup_ids) ==
    LET first == CHOOSE d \in dup_ids : \A e \in dup_ids : d <= e
    IN {IF x.bill_id = first THEN [x EXCEPT !.bill_id = master_id] ELSE x : x \in S}

\* UPDATE sections SET bill_id = $1 WHERE bill_id = ANY($2)
MoveSections(S, master_id, dup_ids) ==
    {IF x.bill_id \in dup_ids THEN [x EXCEPT !.bill_id = master_id] ELSE x : x \in S}

\* (mutant) every row but the oldest is deleted
DeleteBills_mut(B, dup_ids) == {b \in B : \A o \in B : b.id <= o.id}

\* DELETE FROM bills WHERE id = ANY($1)
DeleteBills(B, dup_ids) == {b \in B : b.id \notin dup_ids}

MergeTitles == {TitleF, TitleFv, TitleG}

\* the store merge_bills.py is started on
MergeStore ==
    /\ \E title \in [1..MaxMergeBills -> MergeTitles],
          created \in [1..MaxMergeBills -> 1..MaxCreatedAt],
          ref \in [1..MaxMergeSections -> 0..MaxMergeBills] :
          \* the bills are numbered in creation order, ties allowed
          /\ \A i \in 1..MaxMergeBills, j \in 1..MaxMergeBills :
                i < j => created[i] <= created[j]
          \* bill 2 carries a ministry and a first reading, the others none
          /\ bills = {BillRow(i, title[i], IF i = 2 THEN 1 ELSE None,
                              IF i = 2 THEN 1 ELSE None, IF i = 2 THEN 1 ELSE None,
                              created[i]) : i \in 1..MaxMergeBills}
          /\ sections = {SectionRow(j, 1, None, ref[j],
                                    IF ref[j] = None THEN "question" ELSE "bill",
                                    IF ref[j] = None THEN "OA" ELSE "BP",
                                    IF ref[j] = None THEN TitleG ELSE title[ref[j]],
                                    j, 1) : j \in 1..MaxMergeSections}
    /\ ministries = Ministries
    /\ sittings = {SittingRow(1, 1, 1, 1)}
    /\ members = {}
    /\ attendance = {}
    /\ speakers = {}
    /\ nextId = [t \in {"members", "bills", "sections"} |->
                   CASE t = "members" -> 1
                     [] t = "bills" -> MaxMergeBills + 1
                     [] OTHER -> MaxMergeSections + 1]
    /\ merge = MergeIdleRec
    /\ clean = CleanIdleRec
    /\ before = [bills |-> bills, sections |-> sections]
    /\ gen = GenIdleRec

MergeInit ==
    /\ MergeStore
    /\ ResolverIdle
    /\ OrchIdle
    /\ IngestIdle

MergeFrame == UNCHANGED <<sittings, members, attendance, speakers, nextId,
                          refVars, resolverVars, clean, before, gen, orchVars,
                          ingestVars>>

\* merge_bills.py:14-27: the groups query
MergeFindGroups ==
    /\ merge.pc = "idle"
    /\ LET groups == DuplicateGroups(bills) IN
       merge' = [merge EXCEPT !.pc = IF groups = {} THEN "done" ELSE "loop",
                              !.groups = groups,
                              !.out = IF groups = {} THEN @
                                      ELSE Append(@, Report("duplicate sets",
                                                            Cardinality(groups)))]
    /\ UNCHANGED <<bills, sections>>
    /\ MergeFrame

\* merge_bills.py:32-58: the details query of the next group, master and dup_ids
MergeDetails ==
    /\ merge.pc = "loop"
    /\ \E g \in merge.groups :
         LET candidates == {b \in bills : b.id \in g}
             rest == merge.groups \ {g}
         IN IF candidates = {}
               THEN merge' = [merge EXCEPT !.groups = rest,
                                 !.pc = IF rest = {} THEN "done" ELSE "loop"]
               ELSE \E master \in FirstCandidates(sections, candidates) :
                      LET dup_ids == BillIdsOf(candidates) \ {master.id} IN
                      merge' = [merge EXCEPT
                                  !.groups = rest,
                                  !.master = master.id,
                                  !.dups = dup_ids,
                                  !.out = Append(@, Report("duplicates",
                                                           Cardinality(dup_ids))),
                                  !.pc = IF dup_ids # {} THEN "move"
                                         ELSE IF rest = {} THEN "done" ELSE "loop"]
    /\ UNCHANGED <<bills, sections>>
    /\ MergeFrame

\* merge_bills.py:62-68: the move query
MergeMove ==
    /\ merge.pc = "move"
    /\ sections' = MoveSections(sections, merge.master, merge.dups)
    /\ merge' = [merge EXCEPT !.pc = "delete"]
    /\ UNCHANGED bills
    /\ MergeFrame

\* merge_bills.py:70-79: the delete query, then the next group
MergeDelete ==
    /\ merge.pc = "delete"
    /\ bills' = DeleteBills(bills, merge.dups)
    /\ merge' = [merge EXCEPT !.pc = IF merge.groups = {} THEN "done" ELSE "loop",
                              !.masters = @ \cup {merge.master}]
    /\ UNCHANGED sections
    /\ MergeFrame

\* the process stops between two store calls of a group
MergeCrash ==
    /\ merge.pc \in {"loop", "move", "delete"}
    /\ merge' = [merge EXCEPT !.pc = "crashed"]
    /\ UNCHANGED <<bills, sections>>
    /\ MergeFrame

MergeNext ==
    \/ MergeFindGroups
    \/ MergeDetails
    \/ MergeMove
    \/ MergeDelete
    \/ MergeCrash

SpecMerge == MergeInit /\ [][MergeNext]_vars

\* the section row that now carries the id of s0
SectionNow(s0) == CHOOSE x \in sections : x.id = s0.id

(* C5: when merge has completed, in every group of duplicate bills one row  *)
(* (the master) is left, no other id of the group remains in the bills      *)
(* table, and every section that pointed at a non-master id of the group    *)
(* points at the master.                                                    *)
C5_MergeIntegrity ==
    merge.pc = "done" =>
        \A g \in DuplicateGroups(before.bills) :
            \E m \in g \cap merge.masters :
                /\ BillIdsOf(bills) \cap g = {m}
                /\ \A s0 \in before.sections :
                      s0.bill_id \in g \ {m} =>
                          /\ \E x \in sections : x.id = s0.id
                          /\ SectionNow(s0).bill_id = m

\* merge has completed and has reassigned a section and deleted two duplicates
C5_Witness ==
    /\ merge.pc = "done"
    /\ Cardinality(bills) + 2 = Cardinality(before.bills)
    /\ \E s0 \in before.sections :
          s0.bill_id # None /\ SectionNow(s0).bill_id # s0.bill_id

GroupUntouched(g) ==
    /\ {b \in bills : b.id \in g} = {b \in before.bills : b.id \in g}
    /\ {x \in sections : x.bill_id \in g} = {x \in before.sections : x.bill_id \in g}

GroupMerged(g) ==
    \E m \in g :
        /\ BillIdsOf(bills) \cap g = {m}
        /\ \A s0 \in before.sections : s0.bill_id \in g => SectionNow(s0).bill_id = m

NoDanglingBill == \A x \in sections : x.bill_id # None => x.bill_id \in BillIdsOf(bills)

(* C6: if merge stops between two store calls, no section points at a       *)
(* deleted bill and every duplicate group is either fully merged or         *)
(* untouched.                                                               *)
C6_MergeTransactional ==
    merge.pc = "crashed" =>
        /\ NoDanglingBill
        /\ \A g \in DuplicateGroups(before.bills) : GroupUntouched(g) \/ GroupMerged(g)

\* the sections that referred to a bill when merge started
SectionsBefore(bill_id) == Cardinality({x \in before.sections : x.bill_id = bill_id})

\* the rows of a duplicate group when merge started
GroupRows(g) == {b \in before.bills : b.id \in g}

(* C26: when merge has completed, the row left of each duplicate group is   *)
(* one with the most linked sections and, among those, of the earliest      *)
(* creation time; every other row of the group is deleted, and no step      *)
(* deletes the row merge has chosen as master.                              *)
C26_MasterChoice ==
    /\ [](merge.pc = "done" =>
            \A g \in DuplicateGroups(before.bills) :
                \E m \in GroupRows(g) :
                    /\ {b.id : b \in {x \in bills : x.id \in g}} = {m.id}
                    /\ \A o \in GroupRows(g) :
                          /\ SectionsBefore(o.id) <= SectionsBefore(m.id)
                          /\ SectionsBefore(o.id) = SectionsBefore(m.id)
                                => m.created_at <= o.created_at)
    /\ [][merge'.pc \in {"move", "delete", "loop", "done"} /\ merge'.master # None
            => \E b \in bills' : b.id = merge'.master]_vars

\* merge has completed and has kept, for its sections, a row that is not
\* the oldest of its group
C26_Witness ==
    /\ merge.pc = "done"
    /\ \E g \in DuplicateGroups(before.bills) :
          \E m \in GroupRows(g), o \in GroupRows(g) :
              /\ m \in bills
              /\ o \notin bills
              /\ o.created_at < m.created_at
              /\ SectionsBefore(o.id) < SectionsBefore(m.id)

----------------------------------------------------------------------------
(* SpecRemerge: merge_bills.py run again on the store the run before it     *)
(* left.                                                                    *)

\* merge_bills.py:84-85: the program is run again
MergeRestart ==
    /\ merge.pc = "done"
    /\ merge.runs + 1 < MaxMergeRuns
    /\ merge' = [MergeIdleRec EXCEPT
                   !.runs = merge.runs + 1,
                   !.prev_deleted = Cardinality(before.bills \ bills)]
    /\ before' = [bills |-> bills, sections |-> sections]
    /\ UNCHANGED <<storeVars, refVars, resolverVars, clean, gen, orchVars, ingestVars>>

RemergeNext ==
    \/ MergeNext
    \/ MergeRestart

SpecRemerge == MergeInit /\ [][RemergeNext]_vars

\* the bill is the only one of its normalised title
UniqueTitle(b, B) == \A o \in B : NormTitle(o.title) = NormTitle(b.title) => o = b

Linked(S) == {x \in S : x.bill_id # None}

(* C35: merge adds and deletes no section and changes of a section nothing  *)
(* but its bill reference; the sections that refer to a bill stay as many;  *)
(* a bill row left in the table is as merge found it; a bill whose          *)
(* normalised title no other bill has stays, with the sections that refer   *)
(* to it; and a run of merge after a completed one finds no duplicate group *)
(* and writes nothing.                                                      *)
C35_MergeFrame ==
    /\ [](/\ Cardinality(sections) = Cardinality(before.sections)
          /\ \A x \in sections : \E y \in before.sections :
                 y.id = x.id /\ [x EXCEPT !.bill_id = y.bill_id] = y)
    /\ [](Cardinality(Linked(sections)) = Cardinality(Linked(before.sections)))
    /\ [](bills \subseteq before.bills)
    /\ [](\A b \in before.bills :
            UniqueTitle(b, before.bills) =>
                /\ b \in bills
                /\ {x \in sections : x.bill_id = b.id}
                      = {x \in before.sections : x.bill_id = b.id})
    /\ [][merge.runs > 0 =>
            /\ merge'.groups = {}
            /\ merge'.pc \in {"idle", "done"}
            /\ UNCHANGED <<bills, sections>>]_vars

\* a second run is done after a run that deleted duplicates; the store holds
\* a bill of a title no other bill has, and a master that carries a ministry
C35_Witness ==
    /\ merge.runs > 0
    /\ merge.pc = "done"
    /\ merge.prev_deleted > 0
    /\ \E b \in bills : UniqueTitle(b, before.bills) /\ b.ministry_id = None
    /\ \E b \in bills : b.ministry_id # None

----------------------------------------------------------------------------
(* SpecCleanup: cleanup_duplicates.cleanup(start, end, keep_newest) run     *)
(* against a store holding duplicate sections: the sittings query, then     *)
(* the single DELETE statement.                                             *)

\* (mutant) the sittings of every date
SittingsInRange_mut(start_date, end_date) == {x.id : x \in sittings}

\* SELECT id, date FROM sittings WHERE date >= $1 AND date <= $2
SittingsInRange(start_date, end_date) ==
    {x.id : x \in {y \in sittings : y.date >= start_date /\ y.date <= end_date}}

\* PARTITION BY sitting_id, section_title, section_type
SamePartition(a, b) ==
    /\ a.sitting_id = b.sitting_id
    /\ a.title = b.title
    /\ a.section_type = b.section_type

\* (mutant) only the second row of a partition is deleted
DeleteDuplicates_mut(S, sitting_ids, keep_newest) ==
    LET T == {x \in S : x.sitting_id \in sitting_ids}
        r(x) == 1 + Cardinality({o \in T : /\ o.sitting_id = x.sitting_id
                                           /\ o.title = x.title
                                           /\ o.section_type = x.section_type
                                           /\ o.id < x.id})
    IN {x \in S : ~(x \in T /\ r(x) = 2)}

\* (mutant) ties on created_at are broken by descending id
RanksBefore_mut(a, b, keep_newest) ==
    \/ (IF keep_newest THEN a.created_at > b.created_at
                       ELSE a.created_at < b.created_at)
    \/ (a.created_at = b.created_at /\ a.id > b.id)

\* ORDER BY created_at {DESC if keep_newest else ASC}, id ASC
RanksBefore(a, b, keep_newest) ==
    \/ (IF keep_newest THEN a.created_at > b.created_at
                       ELSE a.created_at < b.created_at)
    \/ (a.created_at = b.created_at /\ a.id < b.id)

\* ROW_NUMBER() OVER (PARTITION BY ... ORDER BY ...) among the rows of T
rnum(T, x, keep_newest) ==
    1 + Cardinality({o \in T : SamePartition(o, x) /\ RanksBefore(o, x, keep_newest)})

\* DELETE FROM sections WHERE id IN (SELECT id FROM duplicates WHERE rnum > 1)
DeleteDuplicates(S, sitting_ids, keep_newest) ==
    LET T == {x \in S : x.sitting_id \in sitting_ids}
    IN {x \in S : ~(x \in T /\ rnum(T, x, keep_newest) > 1)}

CleanKeys == {<<TitleF, "BI">>, <<TitleF, "BP">>, <<TitleG, "BP">>}
CleanSittings == {SittingRow(1, 1, 1, 1), SittingRow(2, 2, 1, 1)}
CleanCreatedAt == {1, 2}

CleanupInit ==
    /\ \E sit \in [1..MaxCleanSections -> {1, 2}],
          key \in [1..MaxCleanSections -> CleanKeys],
          created \in [1..MaxCleanSections -> CleanCreatedAt] :
          sections = {SectionRow(j, sit[j], None,
                                 IF key[j][1] = TitleF THEN 1 ELSE None,
                                 "bill", key[j][2], key[j][1],
                                 j, created[j]) : j \in 1..MaxCleanSections}
    /\ ministries = Ministries
    /\ sittings = CleanSittings
    /\ members = {[id |-> 1, name |-> "Alice"]}
    /\ bills = {BillRow(1, TitleF, None, 1, 1, 1)}
    /\ attendance = {[sitting_id |-> x.id, member_id |-> 1, present |-> TRUE,
                      constituency |-> "East", designation |-> <<>>] :
                        x \in CleanSittings}
    /\ speakers = {}
    /\ nextId = [t \in {"members", "bills", "sections"} |->
                   CASE t = "sections" -> MaxCleanSections + 1
                     [] OTHER -> 2]
    /\ merge = MergeIdleRec
    /\ clean = CleanIdleRec
    /\ before = [bills |-> bills, sections |-> sections]
    /\ gen = GenIdleRec
    /\ ResolverIdle
    /\ OrchIdle
    /\ IngestIdle

CleanFrame == UNCHANGED <<sittings, members, bills, attendance, speakers, nextId,
                          refVars, resolverVars, merge, before, gen, orchVars,
                          ingestVars>>

\* cleanup_duplicates.py:9-26: the sittings of the date range
CleanupSittings(start_date, end_date, keep_newest) ==
    /\ clean.pc = "idle"
    /\ LET ids == SittingsInRange(start_date, end_date) IN
       clean' = [pc |-> IF ids = {} THEN "done" ELSE "delete",
                 keep_newest |-> keep_newest, sitting_ids |-> ids,
                 out |-> IF ids = {} THEN <<>>
                         ELSE <<Report("sittings", Cardinality(ids))>>,
                 range |-> <<start_date, end_date>>,
                 runs |-> clean.runs, prev |-> clean.prev]
    /\ UNCHANGED sections
    /\ CleanFrame

\* cleanup_duplicates.py:32-52: the DELETE statement, then its status
CleanupDelete ==
    /\ clean.pc = "delete"
    /\ sections' = DeleteDuplicates(sections, clean.sitting_ids, clean.keep_newest)
    /\ clean' = [clean EXCEPT !.pc = "done",
                   !.out = Append(@, Report("status",
                                            Cardinality(sections \ sections')))]
    /\ CleanFrame

\* cleanup_duplicates_sqlite.py:12-30: the sittings of the date range
CleanupSittingsSqlite(start_date, end_date, keep_newest) ==
    /\ clean.pc = "idle"
    /\ LET ids == SittingsInRange(start_date, end_date) IN
       clean' = [pc |-> IF ids = {} THEN "done" ELSE "count",
                 keep_newest |-> keep_newest, sitting_ids |-> ids,
                 out |-> IF ids = {} THEN <<>>
                         ELSE <<Report("sittings", Cardinality(ids))>>,
                 range |-> <<start_date, end_date>>,
                 runs |-> clean.runs, prev |-> clean.prev]
    /\ UNCHANGED sections
    /\ CleanFrame

\* cleanup_duplicates_sqlite.py:32-53: the count query and its report
CleanupCountSqlite ==
    /\ clean.pc = "count"
    /\ LET dup_count == Cardinality(sections \ DeleteDuplicates(sections,
                                         clean.sitting_ids, clean.keep_newest))
       IN clean' = [clean EXCEPT !.pc = IF dup_count = 0 THEN "done" ELSE "remove",
                      !.out = Append(@, Report("duplicates", dup_count))]
    /\ UNCHANGED sections
    /\ CleanFrame

\* cleanup_duplicates_sqlite.py:55-79: the DELETE statement and the commit
CleanupDeleteSqlite ==
    /\ clean.pc = "remove"
    /\ sections' = DeleteDuplicates(sections, clean.sitting_ids, clean.keep_newest)
    /\ clean' = [clean EXCEPT !.pc = "done",
                   !.out = Append(@, Report("deleted",
                                            Cardinality(sections \ sections')))]
    /\ CleanFrame

CleanupNext ==
    \/ \E start_date \in 1..2, end_date \in 1..2, keep_newest \in BOOLEAN :
          CleanupSittings(start_date, end_date, keep_newest)
    \/ CleanupDelete
    \/ \E start_date \in 1..2, end_date \in 1..2, keep_newest \in BOOLEAN :
          CleanupSittingsSqlite(start_date, end_date, keep_newest)
    \/ CleanupCountSqlite
    \/ CleanupDeleteSqlite

SpecCleanup == CleanupInit /\ [][CleanupNext]_vars

\* the partition of x among the sections the job found in its sittings
PartitionOf(x) ==
    {o \in before.sections : o.sitting_id \in clean.sitting_ids /\ SamePartition(o, x)}

\* x is the earliest of P by creation order (the latest under keep_newest),
\* the lowest id among those created at the same time
IsSurvivor(x, P) ==
    \A o \in P \ {x} :
        \/ (IF clean.keep_newest THEN x.created_at > o.created_at
                                 ELSE x.created_at < o.created_at)
        \/ (x.created_at = o.created_at /\ x.id < o.id)

(* C7: after cleanup, of every partition of N sections of the date range    *)
(* sharing (sitting, title, section type) exactly N-1 are deleted, and the  *)
(* one left is the earliest by created_at (the latest under keep_newest),   *)
(* ties broken by ascending id.                                             *)
C7_DedupDeterminism ==
    (clean.pc = "done" /\ clean.sitting_ids # {}) =>
        \A x \in before.sections :
            x.sitting_id \in clean.sitting_ids =>
                LET P == PartitionOf(x) IN
                /\ Cardinality(P \ sections) = Cardinality(P) - 1
                /\ \A y \in P \cap sections : IsSurvivor(y, P)

\* a partition of three rows, two of them tied on created_at, was cleaned
\* keeping the newest
C7_Witness ==
    /\ clean.pc = "done"
    /\ clean.keep_newest
    /\ \E x \in sections :
          /\ x.sitting_id \in clean.sitting_ids
          /\ Cardinality(PartitionOf(x)) = 3
          /\ \E o \in PartitionOf(x) \ {x} : o.created_at = x.created_at

\* the date of the sitting of a section
DateOfSection(x) == (CHOOSE t \in sittings : t.id = x.sitting_id).date

\* the section lies in a sitting whose date is outside the range of the run
OutsideRange(x) ==
    \/ clean.range = <<>>
    \/ DateOfSection(x) < clean.range[1]
    \/ DateOfSection(x) > clean.range[2]

\* the rows the job found in x's sitting with x's title and section type
KeyMates(x) == {o \in before.sections : SamePartition(o, x)}

(* C34: cleanup neither deletes nor modifies a section of a sitting whose   *)
(* date is outside the range, a section that is the only row of its         *)
(* (sitting, title, section type) partition, or any sitting, bill, member   *)
(* or attendance row; it adds no row and changes no row it keeps.           *)
C34_CleanupFrame ==
    /\ [][UNCHANGED <<sittings, bills, members, attendance>>]_vars
    /\ [](sections \subseteq before.sections)
    /\ [](\A x \in before.sections :
            (OutsideRange(x) \/ KeyMates(x) = {x}) => x \in sections)

\* a run over one of the two dates has deleted a duplicate, and the store
\* holds a section outside the range and sitting, member, bill and
\* attendance rows
C34_Witness ==
    /\ clean.pc = "done"
    /\ sections # before.sections
    /\ \E x \in sections : OutsideRange(x)
    /\ sittings # {} /\ bills # {} /\ members # {} /\ attendance # {}

----------------------------------------------------------------------------
(* SpecRecleanup: the cleanup job run again on the store the run before it  *)
(* left.                                                                    *)

\* cleanup_duplicates.py:54-66, cleanup_duplicates_sqlite.py:82-98: the
\* program is run again
CleanupRestart ==
    /\ clean.pc = "done"
    /\ clean.runs + 1 < MaxCleanRuns
    /\ clean' = [CleanIdleRec EXCEPT
                   !.runs = clean.runs + 1,
                   !.prev = [range |-> clean.range,
                             deleted |-> Cardinality(before.sections \ sections)]]
    /\ before' = [bills |-> bills, sections |-> sections]
    /\ UNCHANGED <<storeVars, refVars, resolverVars, merge, gen, orchVars, ingestVars>>

RecleanupNext ==
    \/ CleanupNext
    \/ CleanupRestart

SpecRecleanup == CleanupInit /\ [][RecleanupNext]_vars

(* C33: after cleanup over a date range no two sections left in a sitting   *)
(* of the range share (sitting, title, section type), and a run of cleanup  *)
(* over the range of the run before it deletes nothing.                     *)
C33_CleanupIdempotent ==
    /\ [](clean.pc = "done" =>
            \A x \in sections, y \in sections :
                (x.sitting_id \in clean.sitting_ids /\ SamePartition(x, y)) => x = y)
    /\ [][(clean.runs > 0 /\ clean.range = clean.prev.range) =>
              sections' = sections]_vars
    /\ [](\A k \in 1..Len(clean.out) :
            (/\ clean.runs > 0 /\ clean.range = clean.prev.range
             /\ clean.out[k].what \in {"duplicates", "status", "deleted"})
               => clean.out[k].n = 0)

\* a second run over the range of the first, which had deleted rows, is done
C33_Witness ==
    /\ clean.runs > 0
    /\ clean.pc = "done"
    /\ clean.sitting_ids # {}
    /\ clean.range = clean.prev.range
    /\ clean.prev.deleted > 0
    /\ Len(clean.out) > 1

\* the job has printed the number of duplicates it found
Reported(out) == \E k \in 1..Len(out) : out[k].what = "duplicates"

(* C29: a step of the section cleanup that deletes rows comes after the     *)
(* job has reported the number of duplicates it found, and so does a step   *)
(* of the bill merge that deletes rows.                                     *)
C29_ReportBeforeDelete ==
    [][/\ (sections' \subseteq sections /\ sections' # sections) => Reported(clean.out)
       /\ (bills' \subseteq bills /\ bills' # bills) => Reported(merge.out)]_vars

----------------------------------------------------------------------------
(* batch_process(): the orchestrator (batch_process.py:498-570).  Dates are *)
(* day numbers.  A date's ingest_session task is "pending" (not created),   *)
(* running ("fetch", "write"), finished ("ok" with a sitting id, "none"),   *)
(* "failed" (it raised) or "cancelled".                                     *)

\* chunk_size = 5
chunk_size == 5

\* (mutant) the end date is left out
DateRange_mut(start_date, end_date) ==
    IF start_date < end_date
       THEN [k \in 1..(end_date - start_date) |-> start_date + k - 1]
       ELSE <<>>

\* dates = []; curr = start; while curr <= end: dates.append(curr); curr += 1 day
DateRange(start_date, end_date) ==
    IF start_date <= end_date
       THEN [k \in 1..(end_date - start_date + 1) |-> start_date + k - 1]
       ELSE <<>>

Min(a, b) == IF a <= b THEN a ELSE b

\* (mutant) the chunk is all the dates from i on
ChunkOf_mut(dates, i) == SubSeq(dates, i + 1, Len(dates))

\* chunk = dates[i:i+chunk_size] (i counts from 0)
ChunkOf(dates, i) == SubSeq(dates, i + 1, Min(i + chunk_size, Len(dates)))

SeqRange(q) == {q[k] : k \in 1..Len(q)}

Running == {"fetch", "write", "sitting", "attendance", "sections"}
Finished == {"ok", "none"}

\* tasks = [ingest_session(d) for d in chunk]; asyncio.gather(*tasks)
StartTasks(t, chunk) == [d \in DOMAIN t |-> IF d \in SeqRange(chunk) THEN "fetch" ELSE t[d]]

\* for sid in results: if sid: ingested_session_ids.append(sid)
RECURSIVE CollectIds(_, _, _)
CollectIds(ids, chunk, t) ==
    IF chunk = <<>> THEN ids
    ELSE CollectIds(IF t[Head(chunk)] = "ok"
                       THEN Append(ids, SittingOfDate(Head(chunk))) ELSE ids,
                    Tail(chunk), t)

OrchFrame == UNCHANGED <<storeVars, refVars, resolverVars, jobVars, source, ing, sem, missed, lim>>

RowCounts == [sections |-> Cardinality(sections),
              attendance |-> Cardinality(attendance),
              bills |-> Cardinality(bills)]

\* batch_process.py:498-519: the date range, then the first chunk's tasks
BatchStart(start_date, end_date) ==
    /\ orch.pc = "idle"
    /\ OrchFrame /\ hist' = hist
    /\ LET dates == DateRange(start_date, end_date) IN
       IF dates = <<>>
          THEN /\ orch' = [orch EXCEPT !.pc = "post", !.dates = dates,
                                      !.start_date = start_date,
                                      !.end_date = end_date]
               /\ task' = task
          ELSE /\ orch' = [orch EXCEPT !.pc = "gather", !.dates = dates, !.i = 0,
                                      !.start_date = start_date,
                                      !.end_date = end_date]
               /\ task' = StartTasks(task, ChunkOf(dates, 0))

\* batch_process.py:519-525: gather returns the chunk's results in order
GatherReturns ==
    /\ orch.pc = "gather"
    /\ LET chunk == ChunkOf(orch.dates, orch.i) IN
       /\ \A d \in SeqRange(chunk) : task[d] \in Finished
       /\ orch' = [orch EXCEPT !.pc = "sleep", !.ids = CollectIds(orch.ids, chunk, task)]
    /\ task' = task
    /\ OrchFrame /\ hist' = hist

\* batch_process.py:519: gather re-raises the first exception of a task; nothing
\* catches it, batch_process ends, and asyncio.run (batch_process.py:595)
\* cancels the tasks still running
GatherRaises ==
    /\ orch.pc = "gather"
    /\ \E d \in SeqRange(ChunkOf(orch.dates, orch.i)) : task[d] = "failed"
    /\ orch' = [orch EXCEPT !.pc = "aborted"]
    /\ task' = [d \in DOMAIN task |-> IF task[d] \in Running THEN "cancelled" ELSE task[d]]
    /\ OrchFrame /\ hist' = hist

\* batch_process.py:516-525: after asyncio.sleep(1), the next chunk's tasks
ChunkSleep ==
    /\ orch.pc = "sleep"
    /\ OrchFrame /\ hist' = hist
    /\ LET next == orch.i + chunk_size IN
       IF next < Len(orch.dates)
          THEN /\ orch' = [orch EXCEPT !.pc = "gather", !.i = next]
               /\ task' = StartTasks(task, ChunkOf(orch.dates, next))
          ELSE /\ orch' = [orch EXCEPT !.pc = "post"]
               /\ task' = task

\* batch_process.py:527-570: the rest of batch_process, taken as one step
\* that ends the run (SpecModes has its steps)
BatchFinish ==
    /\ orch.pc = "post"
    /\ orch' = [orch EXCEPT !.pc = "done"]
    /\ task' = task
    /\ hist' = Append(hist, [dates |-> orch.dates, counts |-> RowCounts])
    /\ OrchFrame

----------------------------------------------------------------------------
(* SpecBatch: the orchestrator over a date range, an ingest_session task    *)
(* seen from outside: the fetch, then its store writes, ending in a sitting *)
(* id, in None, or in an exception of the fetch or of a store call.         *)

\* batch_process.py:133-144: the fetch returns; no data or no sections gives None
BatchFetch(d, has_data) ==
    /\ orch.pc = "gather"
    /\ task[d] = "fetch"
    /\ task' = [task EXCEPT ![d] = IF has_data THEN "write" ELSE "none"]
    /\ orch' = orch
    /\ OrchFrame /\ hist' = hist

\* batch_process.py:153-204: the store writes are done; return session_id
BatchWrite(d) ==
    /\ orch.pc = "gather"
    /\ task[d] = "write"
    /\ task' = [task EXCEPT ![d] = "ok"]
    /\ orch' = orch
    /\ OrchFrame /\ hist' = hist

\* batch_process.py:133-204: the fetch or a store call raises; ingest_session
\* has no try/except
BatchRaise(d) ==
    /\ orch.pc = "gather"
    /\ task[d] \in Running
    /\ task' = [task EXCEPT ![d] = "failed"]
    /\ orch' = orch
    /\ OrchFrame /\ hist' = hist

BatchInit == StoreInit /\ ResolverIdle /\ JobsIdle /\ OrchIdle /\ IngestIdle

BatchNext ==
    \/ \E start_date \in 1..2, end_date \in BatchDates : BatchStart(start_date, end_date)
    \/ GatherReturns
    \/ GatherRaises
    \/ ChunkSleep
    \/ BatchFinish
    \/ \E d \in BatchDates, has_data \in BOOLEAN : BatchFetch(d, has_data)
    \/ \E d \in BatchDates : BatchWrite(d)
    \/ \E d \in BatchDates : BatchRaise(d)

SpecBatch == BatchInit /\ [][BatchNext]_vars

(* C8: the failure of one date's ingestion task does not keep the other     *)
(* dates' tasks from completing: when batch_process has ended, every date   *)
(* of the range has a result (a sitting id or None) or an error.            *)
C8_FailureIsolated ==
    orch.pc \in {"done", "aborted"} =>
        \A d \in SeqRange(orch.dates) : task[d] \in Finished \cup {"failed"}

\* the dates whose ingest_session task has started and not ended
InFlight == {d \in DOMAIN task : task[d] \in Running}

\* the chunk (counted from 0) of the date d of the range
ChunkIndex(dates, d) ==
    ((CHOOSE p \in 1..Len(dates) : dates[p] = d) - 1) \div chunk_size

(* C24: at no time are more than chunk_size = 5 dates in flight, and a task *)
(* of a chunk starts only when every task of every earlier chunk of the     *)
(* range has finished.                                                      *)
C24_ChunkBound ==
    /\ [](Cardinality(InFlight) <= chunk_size)
    /\ [][\A d \in DOMAIN task :
            (task[d] = "pending" /\ task'[d] # "pending") =>
                \A e \in SeqRange(orch'.dates) :
                    ChunkIndex(orch'.dates, e) < ChunkIndex(orch'.dates, d)
                        => task[e] \in Finished]_vars

\* the five tasks of the first chunk have finished and the task of the
\* second chunk is in flight
C24_Witness ==
    /\ orch.pc = "gather"
    /\ orch.i = chunk_size
    /\ Cardinality({d \in DOMAIN task : task[d] \in Finished}) = chunk_size
    /\ InFlight # {}

(* C25: the dates of a run are the days from start to end inclusive, each   *)
(* once and ascending (none when start is after end); a date's task is      *)
(* started once, and when the ingestion loop has ended every date of the    *)
(* range and no other has had its task; the ids collected are those of the  *)
(* dates that gave a sitting, in date order.                                *)
C25_DenseRange ==
    /\ [](orch.pc # "idle" =>
            /\ SeqRange(orch.dates) = orch.start_date..orch.end_date
            /\ \A k \in 1..(Len(orch.dates) - 1) :
                  orch.dates[k + 1] = orch.dates[k] + 1)
    /\ [](orch.pc \in {"post", "done"} =>
            /\ \A d \in DOMAIN task :
                  IF d \in orch.start_date..orch.end_date
                     THEN task[d] \in Finished ELSE task[d] = "pending"
            /\ SeqRange(orch.ids) =
                  {SittingOfDate(d) : d \in {e \in orch.start_date..orch.end_date :
                                                task[e] = "ok"}}
            /\ \A k \in 1..(Len(orch.ids) - 1) : orch.ids[k] < orch.ids[k + 1])
    /\ [][\A d \in DOMAIN task :
            (task'[d] = "fetch" /\ task[d] # "fetch") => task[d] = "pending"]_vars

\* a run over six dates has ended, some dates gave a sitting and some none
C25_Witness ==
    /\ orch.pc = "done"
    /\ Len(orch.dates) = 6
    /\ Len(orch.ids) = 3
    /\ task[1] = "none" /\ task[2] = "ok" /\ task[6] = "ok"

----------------------------------------------------------------------------
(* The ministry attribution of batch_process.py.  A text is a sequence of   *)
(* words, the possessive "'s" a word of its own (so that "Prime Minister"   *)
(* occurs in "Prime Minister's Office" as it does in the string); "x in     *)
(* text" is containment of a run of words.                                  *)

\* DESIGNATION_TO_MINISTRY, in dict order (three of its sixteen entries)
DESIGNATION_TO_MINISTRY ==
    << <<(<<"Minister", "in", "the", "Prime", "Minister", "'s", "Office">>), "PMO">>,
       <<(<<"Minister", "for", "Finance">>), "MOF">>,
       <<(<<"Minister", "for", "Health">>), "MOH">> >>

NoAcronym == ""

\* the acronym of the first table entry, in dict order, that matches
FirstMatch(matches) ==
    IF matches = {} THEN NoAcronym
    ELSE DESIGNATION_TO_MINISTRY[CHOOSE k \in matches : \A k2 \in matches : k <= k2][2]

\* batch_process.py:55-62: the keyword is compared as written against the
\* lower-cased designation
detect_ministry_from_designation(designation) ==
    IF designation = <<>> THEN NoAcronym
    ELSE FirstMatch({k \in 1..Len(DESIGNATION_TO_MINISTRY) :
                        Contains(LowerSeq(designation), DESIGNATION_TO_MINISTRY[k][1])})

\* batch_process.py:64-76
detect_ministry_from_content(content_plain) ==
    IF content_plain = <<>> THEN NoAcronym
    ELSE LET preamble == SubSeq(content_plain, 1, Min(500, Len(content_plain)))
         IN FirstMatch({k \in 1..Len(DESIGNATION_TO_MINISTRY) :
                           Contains(preamble, DESIGNATION_TO_MINISTRY[k][1])})

\* batch_process.py:78-85
RECURSIVE detect_ministry_from_speakers(_)
detect_ministry_from_speakers(sp) ==
    IF sp = <<>> THEN NoAcronym
    ELSE LET designation == Head(sp).appointment
             ministry == IF designation # <<>>
                            /\ Contains(LowerSeq(designation), <<"minister">>)
                            THEN detect_ministry_from_designation(designation)
                            ELSE NoAcronym
         IN IF ministry # NoAcronym THEN ministry
            ELSE detect_ministry_from_speakers(Tail(sp))

\* batch_process.py:87-94
detect_ministry(section) ==
    LET ministry == detect_ministry_from_content(section.content_plain)
    IN IF ministry # NoAcronym THEN ministry
       ELSE detect_ministry_from_speakers(section.speakers)

\* (mutant) an acronym the table lacks is given the id of some row
find_ministry_by_acronym_mut(acronym) ==
    IF acronym = NoAcronym THEN None
    ELSE IF \E m \in ministries : m.acronym = acronym
            THEN (CHOOSE m \in ministries : m.acronym = acronym).id
            ELSE (CHOOSE m \in ministries : TRUE).id

\* db_async.py:57-61
find_ministry_by_acronym(acronym) ==
    IF acronym = NoAcronym THEN None
    ELSE IF \E m \in ministries : m.acronym = acronym
            THEN (CHOOSE m \in ministries : m.acronym = acronym).id
            ELSE None

----------------------------------------------------------------------------
(* The record source: what fetch_by_date returns for a date. *)

Alice == [name |-> "Alice", constituency |-> "East", appointment |-> <<>>]
Bob == [name |-> "Bob", constituency |-> "West", appointment |-> <<>>]
Carol == [name |-> "Carol", constituency |-> "North",
          appointment |-> <<"Minister", "for", "Health">>]

SourceSection(category, section_type, title, content_plain, order, sp) ==
    [category |-> category, section_type |-> section_type, title |-> title,
     content_plain |-> content_plain, order |-> order, speakers |-> sp]

NoSitting == [has_data |-> FALSE, sitting_no |-> None, format |-> None,
              present |-> <<>>, absent |-> <<>>, sections |-> <<>>]

\* date 1: the first reading of bill F and its debate, Carol (on neither
\* attendance list) speaking in both; date 2: a further debate on bill F;
\* no sitting on any later date
Scenario(d) ==
    CASE d = 1 ->
           [has_data |-> TRUE, sitting_no |-> 1, format |-> 1,
            present |-> <<Alice>>, absent |-> <<Bob>>,
            sections |-> << SourceSection("bill", "BI", TitleF,
                                          <<"Minister", "for", "Health">>, 1, <<Carol>>),
                            SourceSection("bill", "BP", TitleF, <<>>, 2, <<Carol>>) >>]
      [] d = 2 ->
           [has_data |-> TRUE, sitting_no |-> 2, format |-> 1,
            present |-> <<Alice>>, absent |-> <<>>,
            sections |-> << SourceSection("bill", "BP", TitleF,
                                          <<"Minister", "for", "Finance">>, 1, <<>>) >>]
      [] OTHER -> NoSitting

\* the sitting of the end-to-end scenario on date 1: two members present, one
\* absent, the first reading of bill F without speakers, its debate with one
\* speaker, and a question that names the Minister for Health in its preamble
Dan == [name |-> "Dan", constituency |-> "South", appointment |-> <<>>]

EndToEnd(d) ==
    CASE d = 1 ->
           [has_data |-> TRUE, sitting_no |-> 1, format |-> 1,
            present |-> <<Alice, Bob>>, absent |-> <<Dan>>,
            sections |-> << SourceSection("bill", "BI", TitleF, <<>>, 1, <<>>),
                            SourceSection("bill", "BP", TitleF, <<>>, 2, <<Alice>>),
                            SourceSection("question", "OA", TitleG,
                                          <<"To", "ask", "the", "Minister", "for",
                                            "Health">>, 3, <<>>) >>]
      [] OTHER -> NoSitting

MemberNames == {"Alice", "Bob", "Carol", "Dan"}

\* BILL_TYPES, imported from parliament_session (batch_process.py:16): the first
\* reading 'BI' (batch_process.py:227) and the debate 'BP'
BILL_TYPES == {"BI", "BP"}

----------------------------------------------------------------------------
(* ingest_session and its sub-tasks (batch_process.py:127-276), one action  *)
(* per awaited call: the call takes effect and the coroutine runs on to its *)
(* next await.                                                              *)

IngestDates == 1..MaxIngestDates

IngIdleRec == [sid |-> None, att |-> <<>>, sec |-> <<>>, i |-> 0]

\* the frame of a step of a date's task
IngFrame == UNCHANGED <<refVars, resolverVars, jobVars, orch, source, hist, lim>>

\* (mutant) only a date without data is skipped
NothingToIngest_mut(parliament_session) == ~parliament_session.has_data

\* "if not parliament_session: return None ... if not sections: return None"
NothingToIngest(parliament_session) ==
    ~parliament_session.has_data \/ parliament_session.sections = <<>>

\* batch_process.py:133-144
IngestFetch(d) ==
    /\ task[d] = "fetch"
    /\ task' = [task EXCEPT ![d] =
                  IF NothingToIngest(source[d]) THEN "none" ELSE "sitting"]
    /\ UNCHANGED <<storeVars, ing, sem, missed>>
    /\ IngFrame

\* (mutant) the sitting row is not written
UpsertSitting_mut(S, date, sitting_no, format) == S

\* INSERT INTO sessions ... ON CONFLICT (date) DO UPDATE SET sitting_no = EXCLUDED.sitting_no
UpsertSitting(S, date, sitting_no, format) ==
    IF \E x \in S : x.date = date
       THEN {IF x.date = date THEN [x EXCEPT !.sitting_no = sitting_no] ELSE x : x \in S}
       ELSE S \cup {SittingRow(SittingOfDate(date), date, sitting_no, format)}

AttTask(mp, present) ==
    [pc |-> "sem", mp |-> mp, present |-> present, member_id |-> None]

\* batch_process.py:170-176: present members first, then absent members
AttTasks(ps) ==
    [k \in 1..(Len(ps.present) + Len(ps.absent)) |->
        IF k <= Len(ps.present) THEN AttTask(ps.present[k], TRUE)
        ELSE AttTask(ps.absent[k - Len(ps.present)], FALSE)]

\* batch_process.py:146-179: the sitting upsert, then the attendance tasks
IngestSitting(d) ==
    /\ task[d] = "sitting"
    /\ sittings' = UpsertSitting(sittings, d, source[d].sitting_no, source[d].format)
    /\ ing' = [ing EXCEPT ![d] = [IngIdleRec EXCEPT !.sid = SittingOfDate(d),
                                                    !.att = AttTasks(source[d])]]
    /\ task' = [task EXCEPT ![d] = "attendance"]
    /\ UNCHANGED <<members, bills, sections, attendance, speakers, nextId, sem, missed>>
    /\ IngFrame

\* SELECT id FROM members WHERE name = $1
SelectMembersByName(name) == {m \in members : m.name = name}

\* (mutant) the found branch is never taken
MemberFound_mut(rows) == FALSE

\* "if row:" (db_async.py:48)
MemberFound(rows) == rows # {}

\* (mutant) the insert replaces the table's rows
InsertMember_mut(M, id, name) == {[id |-> id, name |-> name]}

\* INSERT INTO members (name) VALUES ($1) RETURNING id
InsertMember(M, id, name) == M \cup {[id |-> id, name |-> name]}

\* the lookup of find_or_create_member by a sub-task t: its record afterwards
\* (db_async.py:45-49)
AfterMemberLookup(t, name, row) ==
    IF MemberFound(SelectMembersByName(name))
       THEN [t EXCEPT !.pc = "write", !.member_id = row.id]
       ELSE [t EXCEPT !.pc = "create"]

NoteLookup(name) ==
    missed' = IF SelectMembersByName(name) = {}
                 THEN [missed EXCEPT ![name] = @ + 1] ELSE missed

\* (mutant) ON CONFLICT (session_id, member_id) DO NOTHING
UpsertAttendance_mut(A, sitting_id, member_id, present, constituency, designation) ==
    IF \E a \in A : a.sitting_id = sitting_id /\ a.member_id = member_id THEN A
    ELSE A \cup {[sitting_id |-> sitting_id, member_id |-> member_id, present |-> present,
                  constituency |-> constituency, designation |-> designation]}

\* INSERT INTO session_attendance ... ON CONFLICT (session_id, member_id) DO UPDATE SET ...
UpsertAttendance(A, sitting_id, member_id, present, constituency, designation) ==
    {a \in A : ~(a.sitting_id = sitting_id /\ a.member_id = member_id)}
    \cup {[sitting_id |-> sitting_id, member_id |-> member_id, present |-> present,
           constituency |-> constituency, designation |-> designation]}

\* batch_process.py:207: async with DB_SEMAPHORE
AttAcquire(d, k) ==
    /\ task[d] = "attendance"
    /\ k \in DOMAIN ing[d].att
    /\ ing[d].att[k].pc = "sem"
    /\ sem > 0
    /\ sem' = sem - 1
    /\ ing' = [ing EXCEPT ![d].att[k].pc = "find"]
    /\ UNCHANGED <<storeVars, task, missed>>
    /\ IngFrame

\* batch_process.py:208, db_async.py:45-49: the lookup of find_or_create_member
AttFind(d, k) ==
    /\ task[d] = "attendance"
    /\ k \in DOMAIN ing[d].att
    /\ ing[d].att[k].pc = "find"
    /\ LET t == ing[d].att[k]
           rows == SelectMembersByName(t.mp.name)
       IN /\ \E row \in rows \cup {[id |-> None]} :
               /\ (rows # {} => row \in rows)
               /\ ing' = [ing EXCEPT ![d].att[k] = AfterMemberLookup(t, t.mp.name, row)]
          /\ NoteLookup(t.mp.name)
    /\ UNCHANGED <<storeVars, task, sem>>
    /\ IngFrame

\* db_async.py:52-55: the insert of find_or_create_member
AttCreate(d, k) ==
    /\ task[d] = "attendance"
    /\ k \in DOMAIN ing[d].att
    /\ ing[d].att[k].pc = "create"
    /\ members' = InsertMember(members, nextId.members, ing[d].att[k].mp.name)
    /\ nextId' = [nextId EXCEPT !.members = @ + 1]
    /\ ing' = [ing EXCEPT ![d].att[k].pc = "write",
                          ![d].att[k].member_id = nextId.members]
    /\ UNCHANGED <<sittings, bills, sections, attendance, speakers, task, sem, missed>>
    /\ IngFrame

\* batch_process.py:209-215: the attendance upsert; the permit is released
AttUpsert(d, k) ==
    /\ task[d] = "attendance"
    /\ k \in DOMAIN ing[d].att
    /\ ing[d].att[k].pc = "write"
    /\ LET t == ing[d].att[k] IN
       attendance' = UpsertAttendance(attendance, ing[d].sid, t.member_id, t.present,
                                      t.mp.constituency, t.mp.appointment)
    /\ sem' = sem + 1
    /\ ing' = [ing EXCEPT ![d].att[k].pc = "done"]
    /\ UNCHANGED <<sittings, members, bills, sections, speakers, nextId, task, missed>>
    /\ IngFrame

\* batch_process.py:182-197: the tasks of the section chunk sections[i:i+20]
section_chunk_size == 20

\* (mutant) the sections left are one chunk
ChunkLen_mut(n, i) == n - i

\* len(sections[i:i + chunk_size]) of n sections
ChunkLen(n, i) == Min(i + section_chunk_size, n) - i

NoRow == [id |-> None]

\* batch_process.py:219-228: up to the first store call of process_section
SecTask(d, idx) ==
    LET section == source[d].sections[idx + 1] IN
    [pc |-> IF section.section_type \in BILL_TYPES THEN "bill_find" ELSE "sem",
     idx |-> idx,
     ministry_id |-> find_ministry_by_acronym(detect_ministry(section)),
     bill_id |-> None, row |-> NoRow, section_id |-> None, spk |-> <<>>]

SecTasks(d, i) ==
    [j \in 1..ChunkLen(Len(source[d].sections), i) |->
        SecTask(d, i + j - 1)]

\* batch_process.py:179-197: the attendance gather returns; the first chunk of
\* section tasks starts
IngestSections(d) ==
    /\ task[d] = "attendance"
    /\ \A k \in DOMAIN ing[d].att : ing[d].att[k].pc = "done"
    /\ ing' = [ing EXCEPT ![d].sec = SecTasks(d, 0), ![d].i = 0]
    /\ task' = [task EXCEPT ![d] = "sections"]
    /\ UNCHANGED <<storeVars, sem, missed>>
    /\ IngFrame

\* batch_process.py:227-228
FirstReadingDate(d, section) == IF section.section_type = "BI" THEN d ELSE None
FirstReadingSitting(d, section) ==
    IF section.section_type = "BI" THEN ing[d].sid ELSE None

SecOf(d, j) == source[d].sections[ing[d].sec[j].idx + 1]

SecAt(d, j, pc) ==
    /\ task[d] = "sections"
    /\ j \in DOMAIN ing[d].sec
    /\ ing[d].sec[j].pc = pc

\* the found branch of find_or_create_bill after its lookup: the next await
AfterBillLookup(row, ministry_id, first_reading_date) ==
    IF NeedMinistryUpdate(row, ministry_id) THEN "bill_ministry"
    ELSE IF NeedFirstReadingUpdate(row, first_reading_date) THEN "bill_first"
    ELSE "sem"

\* batch_process.py:230, db_async.py:66-92: the lookup of find_or_create_bill,
\* called outside the limiter
SecBillFind(d, j) ==
    /\ SecAt(d, j, "bill_find")
    /\ LET t == ing[d].sec[j]
           rows == SelectBillsByTitle(SecOf(d, j).title)
       IN IF rows = {}
             THEN ing' = [ing EXCEPT ![d].sec[j].pc = "bill_insert"]
             ELSE \E row \in rows :
                    ing' = [ing EXCEPT ![d].sec[j] =
                              [t EXCEPT !.row = row, !.bill_id = row.id,
                                        !.pc = AfterBillLookup(row, t.ministry_id,
                                                   FirstReadingDate(d, SecOf(d, j)))]]
    /\ UNCHANGED <<storeVars, task, sem, missed>>
    /\ IngFrame

\* db_async.py:77-82: UPDATE bills SET ministry_id
SecBillMinistry(d, j) ==
    /\ SecAt(d, j, "bill_ministry")
    /\ LET t == ing[d].sec[j] IN
       /\ bills' = UpdateBillMinistry(bills, t.bill_id, t.ministry_id)
       /\ ing' = [ing EXCEPT ![d].sec[j].pc =
                     IF NeedFirstReadingUpdate(t.row, FirstReadingDate(d, SecOf(d, j)))
                        THEN "bill_first" ELSE "sem"]
    /\ UNCHANGED <<sittings, members, sections, attendance, speakers, nextId, task, sem, missed>>
    /\ IngFrame

\* db_async.py:84-90: UPDATE bills SET first_reading_date, first_reading_session_id
SecBillFirst(d, j) ==
    /\ SecAt(d, j, "bill_first")
    /\ bills' = UpdateBillFirstReading(bills, ing[d].sec[j].bill_id,
                                       FirstReadingDate(d, SecOf(d, j)),
                                       FirstReadingSitting(d, SecOf(d, j)))
    /\ ing' = [ing EXCEPT ![d].sec[j].pc = "sem"]
    /\ UNCHANGED <<sittings, members, sections, attendance, speakers, nextId, task, sem, missed>>
    /\ IngFrame

\* db_async.py:94-99: INSERT INTO bills
SecBillInsert(d, j) ==
    /\ SecAt(d, j, "bill_insert")
    /\ bills' = InsertBill(bills, nextId.bills, SecOf(d, j).title,
                           ing[d].sec[j].ministry_id,
                           FirstReadingDate(d, SecOf(d, j)),
                           FirstReadingSitting(d, SecOf(d, j)))
    /\ nextId' = [nextId EXCEPT !.bills = @ + 1]
    /\ ing' = [ing EXCEPT ![d].sec[j].pc = "sem", ![d].sec[j].bill_id = nextId.bills]
    /\ UNCHANGED <<sittings, members, sections, attendance, speakers, task, sem, missed>>
    /\ IngFrame

\* batch_process.py:238: async with DB_SEMAPHORE
SecAcquire(d, j) ==
    /\ SecAt(d, j, "sem")
    /\ sem > 0
    /\ sem' = sem - 1
    /\ ing' = [ing EXCEPT ![d].sec[j].pc = "insert"]
    /\ UNCHANGED <<storeVars, task, missed>>
    /\ IngFrame

SpkTask(sp) == [pc |-> "sem", sp |-> sp, member_id |-> None]

\* batch_process.py:239-264: INSERT INTO sections; the permit is released and
\* the section's speaker tasks start
SecInsert(d, j) ==
    /\ SecAt(d, j, "insert")
    /\ LET t == ing[d].sec[j]
           section == SecOf(d, j)
       IN /\ sections' = sections \cup
               {SectionRow(nextId.sections, ing[d].sid, t.ministry_id, t.bill_id,
                           section.category, section.section_type, section.title,
                           section.order, nextId.sections)}
          /\ ing' = [ing EXCEPT ![d].sec[j] =
                       [t EXCEPT !.section_id = nextId.sections,
                                 !.spk = [k \in 1..Len(section.speakers) |->
                                             SpkTask(section.speakers[k])],
                                 !.pc = IF section.speakers = <<>>
                                           THEN "done" ELSE "speakers"]]
    /\ nextId' = [nextId EXCEPT !.sections = @ + 1]
    /\ sem' = sem + 1
    /\ UNCHANGED <<sittings, members, bills, attendance, speakers, task, missed>>
    /\ IngFrame

SpkAt(d, j, k, pc) ==
    /\ SecAt(d, j, "speakers")
    /\ k \in DOMAIN ing[d].sec[j].spk
    /\ ing[d].sec[j].spk[k].pc = pc

\* batch_process.py:269: async with DB_SEMAPHORE
SpkAcquire(d, j, k) ==
    /\ SpkAt(d, j, k, "sem")
    /\ sem > 0
    /\ sem' = sem - 1
    /\ ing' = [ing EXCEPT ![d].sec[j].spk[k].pc = "find"]
    /\ UNCHANGED <<storeVars, task, missed>>
    /\ IngFrame

\* batch_process.py:270, db_async.py:45-49: the lookup of find_or_create_member
SpkFind(d, j, k) ==
    /\ SpkAt(d, j, k, "find")
    /\ LET t == ing[d].sec[j].spk[k]
           rows == SelectMembersByName(t.sp.name)
       IN /\ \E row \in rows \cup {NoRow} :
               /\ (rows # {} => row \in rows)
               /\ ing' = [ing EXCEPT ![d].sec[j].spk[k] =
                            AfterMemberLookup(t, t.sp.name, row)]
          /\ NoteLookup(t.sp.name)
    /\ UNCHANGED <<storeVars, task, sem>>
    /\ IngFrame

\* db_async.py:52-55: the insert of find_or_create_member
SpkCreate(d, j, k) ==
    /\ SpkAt(d, j, k, "create")
    /\ members' = InsertMember(members, nextId.members, ing[d].sec[j].spk[k].sp.name)
    /\ nextId' = [nextId EXCEPT !.members = @ + 1]
    /\ ing' = [ing EXCEPT ![d].sec[j].spk[k].pc = "write",
                          ![d].sec[j].spk[k].member_id = nextId.members]
    /\ UNCHANGED <<sittings, bills, sections, attendance, speakers, task, sem, missed>>
    /\ IngFrame

\* INSERT INTO section_speakers ... ON CONFLICT (section_id, member_id) DO NOTHING
AddSectionSpeaker(K, section_id, member_id, constituency, designation) ==
    IF \E x \in K : x.section_id = section_id /\ x.member_id = member_id THEN K
    ELSE K \cup {[section_id |-> section_id, member_id |-> member_id,
                  constituency |-> constituency, designation |-> designation]}

\* batch_process.py:271-276: the speaker link; the permit is released; the last
\* speaker task to end ends the gather of line 264 and process_section returns
SpkAdd(d, j, k) ==
    /\ SpkAt(d, j, k, "write")
    /\ LET t == ing[d].sec[j].spk[k]
           others == {k2 \in DOMAIN ing[d].sec[j].spk : k2 # k}
       IN /\ speakers' = AddSectionSpeaker(speakers, ing[d].sec[j].section_id,
                                           t.member_id, t.sp.constituency,
                                           t.sp.appointment)
          /\ ing' = [ing EXCEPT ![d].sec[j].spk[k].pc = "done",
                                ![d].sec[j].pc =
                                    IF \A k2 \in others : ing[d].sec[j].spk[k2].pc = "done"
                                       THEN "done" ELSE "speakers"]
    /\ sem' = sem + 1
    /\ UNCHANGED <<sittings, members, bills, sections, attendance, nextId, task, missed>>
    /\ IngFrame

\* batch_process.py:188-204: the chunk's gather returns; the next chunk of
\* section tasks, or return session_id
IngestChunkDone(d) ==
    /\ task[d] = "sections"
    /\ \A j \in DOMAIN ing[d].sec : ing[d].sec[j].pc = "done"
    /\ LET next == ing[d].i + section_chunk_size IN
       IF next < Len(source[d].sections)
          THEN /\ ing' = [ing EXCEPT ![d].sec = SecTasks(d, next), ![d].i = next]
               /\ task' = task
          ELSE /\ ing' = [ing EXCEPT ![d].sec = <<>>, ![d].att = <<>>]
               /\ task' = [task EXCEPT ![d] = "ok"]
    /\ UNCHANGED <<storeVars, sem, missed>>
    /\ IngFrame

\* batch_process.py:573-595: the program is run again on a date range
BatchRestart ==
    /\ orch.pc = "done"
    /\ Len(hist) < MaxRuns
    /\ orch' = OrchIdleRec
    /\ task' = [d \in DOMAIN task |-> "pending"]
    /\ ing' = [d \in DOMAIN ing |-> IngIdleRec]
    /\ UNCHANGED <<storeVars, refVars, resolverVars, jobVars, source, sem, hist, missed, lim>>

----------------------------------------------------------------------------
(* Spec: batch_process over the dates of the record source, every awaited   *)
(* store call a step of its own, run up to MaxRuns times on one store.      *)

IngestInit(D) ==
    /\ StoreInit /\ ResolverIdle /\ JobsIdle
    /\ orch = OrchIdleRec
    /\ task = [d \in D |-> "pending"]
    /\ source = [d \in D |-> Scenario(d)]
    /\ ing = [d \in D |-> IngIdleRec]
    /\ sem = DB_SEMAPHORE
    /\ hist = <<>>
    /\ missed = [n \in MemberNames |-> 0]
    /\ lim = LimIdleRec

\* the steps of the ingest_session tasks of the dates D
IngestTasks(D) ==
    \/ \E d \in D : IngestFetch(d)
    \/ \E d \in D : IngestSitting(d)
    \/ \E d \in D, k \in 1..MaxTasks : AttAcquire(d, k)
    \/ \E d \in D, k \in 1..MaxTasks : AttFind(d, k)
    \/ \E d \in D, k \in 1..MaxTasks : AttCreate(d, k)
    \/ \E d \in D, k \in 1..MaxTasks : AttUpsert(d, k)
    \/ \E d \in D : IngestSections(d)
    \/ \E d \in D, j \in 1..MaxTasks : SecBillFind(d, j)
    \/ \E d \in D, j \in 1..MaxTasks : SecBillMinistry(d, j)
    \/ \E d \in D, j \in 1..MaxTasks : SecBillFirst(d, j)
    \/ \E d \in D, j \in 1..MaxTasks : SecBillInsert(d, j)
    \/ \E d \in D, j \in 1..MaxTasks : SecAcquire(d, j)
    \/ \E d \in D, j \in 1..MaxTasks : SecInsert(d, j)
    \/ \E d \in D, j \in 1..MaxTasks, k \in 1..MaxTasks : SpkAcquire(d, j, k)
    \/ \E d \in D, j \in 1..MaxTasks, k \in 1..MaxTasks : SpkFind(d, j, k)
    \/ \E d \in D, j \in 1..MaxTasks, k \in 1..MaxTasks : SpkCreate(d, j, k)
    \/ \E d \in D, j \in 1..MaxTasks, k \in 1..MaxTasks : SpkAdd(d, j, k)
    \/ \E d \in D : IngestChunkDone(d)

IngestNext(D) ==
    \/ \E start_date \in D, end_date \in D : BatchStart(start_date, end_date)
    \/ GatherReturns
    \/ ChunkSleep
    \/ BatchFinish
    \/ IngestTasks(D)

EndToEndInit(D) ==
    /\ StoreInit /\ ResolverIdle /\ JobsIdle
    /\ orch = OrchIdleRec
    /\ task = [d \in D |-> "pending"]
    /\ source = [d \in D |-> EndToEnd(d)]
    /\ ing = [d \in D |-> IngIdleRec]
    /\ sem = DB_SEMAPHORE
    /\ hist = <<>>
    /\ missed = [n \in MemberNames |-> 0]
    /\ lim = LimIdleRec

\* the record source holds the sittings of Scenario or those of EndToEnd
Init ==
    \/ IngestInit(IngestDates)
    \/ EndToEndInit(IngestDates)

Next == IngestNext(IngestDates)

Spec == Init /\ [][Next]_vars

(* C10: two concurrent resolutions of a name no row has yet can both miss   *)
(* the lookup and both insert; nothing but a miss leads to an insert: for   *)
(* every name, the member rows of that name and the resolutions between     *)
(* their lookup and their insert are together as many as the lookups that   *)
(* found no row of that name, so two rows of one name are two lookups that  *)
(* both missed, each under a permit of its own and no lock.                 *)
MemberTaskIds ==
    {<<d, k, 0>> : d \in DOMAIN ing, k \in 1..MaxTasks} \cup
    {<<d, j, k>> : d \in DOMAIN ing, j \in 1..MaxTasks, k \in 1..MaxTasks}

PendingCreates(name) ==
    {x \in MemberTaskIds :
        IF x[3] = 0
           THEN /\ x[2] \in DOMAIN ing[x[1]].att
                /\ ing[x[1]].att[x[2]].pc = "create"
                /\ ing[x[1]].att[x[2]].mp.name = name
           ELSE /\ x[2] \in DOMAIN ing[x[1]].sec
                /\ x[3] \in DOMAIN ing[x[1]].sec[x[2]].spk
                /\ ing[x[1]].sec[x[2]].spk[x[3]].pc = "create"
                /\ ing[x[1]].sec[x[2]].spk[x[3]].sp.name = name}

C10_MemberRace ==
    \A name \in MemberNames :
        Cardinality(SelectMembersByName(name)) + Cardinality(PendingCreates(name))
            = missed[name]

\* two rows of one name, after two speaker resolutions that both missed
C10_Witness ==
    \E name \in MemberNames :
        /\ Cardinality({m \in members : m.name = name}) = 2
        /\ missed[name] = 2

(* C2: in every state ingestion reaches there is at most one bill row per   *)
(* normalised title.                                                        *)
C2_OneBillPerTitle ==
    \A b1 \in bills, b2 \in bills :
        NormTitle(b1.title) = NormTitle(b2.title) => b1.id = b2.id

(* C15: the ingestion of the sitting of the end-to-end scenario ends, under  *)
(* every interleaving of its tasks, with 1 sitting row, 3 attendance rows,  *)
(* 3 section rows, 1 bill row that both bill sections refer to, 1 section   *)
(* of ministry MOH and 1 speaker row.                                       *)
C15_EndToEnd ==
    (source[1] = EndToEnd(1) /\ task[1] = "ok") =>
        /\ Cardinality(sittings) = 1
        /\ Cardinality(attendance) = 3
        /\ Cardinality(sections) = 3
        /\ Cardinality(bills) = 1
        /\ \A x \in sections : x.section_type \in BILL_TYPES =>
                                   \E b \in bills : x.bill_id = b.id
        /\ Cardinality({x \in sections :
                           x.ministry_id = find_ministry_by_acronym("MOH")}) = 1
        /\ Cardinality(speakers) = 1

\* the acronyms looked up: none, the acronyms of the designation tables, and
\* one no table holds
LookupAcronyms == {NoAcronym, "MOH", "MOF", "PMO", "XYZ"}

(* C20: find_ministry_by_acronym is a pure lookup: the empty acronym and an *)
(* acronym the reference table lacks give none, a known acronym gives the   *)
(* id of its row, every ministry reference ingestion writes is none or the  *)
(* id of a row, and no step of ingestion changes the ministries table.      *)
C20_MinistryReadOnly ==
    /\ [](/\ \A acronym \in LookupAcronyms :
               IF \E m \in ministries : m.acronym = acronym /\ acronym # NoAcronym
                  THEN \E m \in ministries :
                          m.acronym = acronym /\ find_ministry_by_acronym(acronym) = m.id
                  ELSE find_ministry_by_acronym(acronym) = None
          /\ \A x \in sections \cup bills :
               x.ministry_id = None \/ \E m \in ministries : m.id = x.ministry_id)
    /\ [][ministries' = ministries]_vars

\* sections have been written with a ministry found and with none found,
\* the reference table as it was seeded
C20_Witness ==
    /\ \E x \in sections : x.ministry_id = None
    /\ \E x \in sections : x.ministry_id # None
    /\ ministries = Ministries
    /\ find_ministry_by_acronym("PMO") = None

(* C22: in every state ingestion reaches (the process may stop in any of    *)
(* them) every attendance row and every section row refers to a sitting     *)
(* row, every speaker row to a section row and a member row, and every bill *)
(* reference of a section to a bill row; and a step that writes an          *)
(* attendance or a section row finds the sitting row it refers to already   *)
(* written.                                                                 *)
C22_StructurallyValid ==
    /\ [](/\ \A a \in attendance : \E s \in sittings : s.id = a.sitting_id
          /\ \A x \in sections : \E s \in sittings : s.id = x.sitting_id
          /\ \A k \in speakers :
                /\ \E x \in sections : x.id = k.section_id
                /\ \E m \in members : m.id = k.member_id
          /\ \A x \in sections :
                x.bill_id # None => \E b \in bills : b.id = x.bill_id)
    /\ [][\A r \in (attendance' \ attendance) \cup (sections' \ sections) :
             \E s \in sittings : s.id = r.sitting_id]_vars

\* a sitting is partly ingested: attendance, a section under a bill and a
\* speaker link are written, and a section task of the sitting has not yet
\* written its row
C22_Witness ==
    \E d \in DOMAIN task :
        /\ task[d] = "sections"
        /\ \E a \in attendance : a.sitting_id = ing[d].sid
        /\ \E x \in sections : x.sitting_id = ing[d].sid /\ x.bill_id # None
        /\ speakers # {}
        /\ \E j \in DOMAIN ing[d].sec : ing[d].sec[j].section_id = None

\* the bill rows the sections of a title refer to
BillRefsOf(title) == {x.bill_id : x \in {y \in sections : y.title = title}}

(* C21: when a debate (BP) section of a title was written before the first- *)
(* reading (BI) section of that title, both refer to one bill, that bill    *)
(* carries the first reading of the BI section's sitting, and once          *)
(* ingestion has ended all sections of a title are under one bill id.       *)
C21_OutOfOrderLineage ==
    /\ \A x \in sections, y \in sections :
          (/\ y.section_type = "BP" /\ x.section_type = "BI"
           /\ x.title = y.title /\ y.id < x.id)
            => /\ x.bill_id = y.bill_id
               /\ \E b \in bills :
                     /\ b.id = x.bill_id
                     /\ b.first_reading_date # None
                     /\ b.first_reading_sitting_id = x.sitting_id
    /\ (\A d \in DOMAIN task : task[d] \in Finished)
          => \A title \in Titles : Cardinality(BillRefsOf(title)) <= 1

(* C31: concurrent section tasks that backfill one bill do not overwrite    *)
(* each other: a ministry or a first reading a bill row carries is never    *)
(* replaced by a different one.                                             *)
C31_BackfillOnce ==
    [][\A b \in bills, c \in bills' :
          (b.id = c.id) =>
             /\ (b.ministry_id # None => c.ministry_id = b.ministry_id)
             /\ (b.first_reading_date # None =>
                    /\ c.first_reading_date = b.first_reading_date
                    /\ c.first_reading_sitting_id = b.first_reading_sitting_id)]_vars

----------------------------------------------------------------------------
(* SpecOverlap: merge_bills.py run while ingest_session of date 1 is in its *)
(* sections phase.  The store is one merge is started on; the sitting of    *)
(* date 1 is in it and its attendance is written; the one section task      *)
(* left is a first reading of bill F whose text names the Minister for      *)
(* Health.  The two programs share nothing but the store.                   *)

OverlapSitting ==
    [has_data |-> TRUE, sitting_no |-> 1, format |-> 1,
     present |-> <<>>, absent |-> <<>>,
     sections |-> << SourceSection("bill", "BI", TitleF,
                                   <<"Minister", "for", "Health">>, 1, <<>>) >>]

OverlapInit ==
    /\ MergeStore
    /\ ResolverIdle
    /\ orch = [OrchIdleRec EXCEPT !.pc = "gather", !.start_date = 1, !.end_date = 1,
                                  !.dates = <<1>>]
    /\ task = <<"sections">>
    /\ source = <<OverlapSitting>>
    /\ ing = <<[sid |-> SittingOfDate(1), att |-> <<>>, sec |-> SecTasks(1, 0), i |-> 0]>>
    /\ sem = DB_SEMAPHORE
    /\ hist = <<>>
    /\ missed = [n \in MemberNames |-> 0]
    /\ lim = LimIdleRec

OverlapNext ==
    \/ MergeFindGroups
    \/ MergeDetails
    \/ MergeMove
    \/ MergeDelete
    \/ SecBillFind(1, 1)
    \/ SecBillMinistry(1, 1)
    \/ SecBillFirst(1, 1)
    \/ SecBillInsert(1, 1)
    \/ SecAcquire(1, 1)
    \/ SecInsert(1, 1)
    \/ IngestChunkDone(1)

SpecOverlap == OverlapInit /\ [][OverlapNext]_vars

\* the sections that refer to a bill row the bills table does not hold
Dangling ==
    {x \in sections : x.bill_id # None /\ ~\E b \in bills : b.id = x.bill_id}

\* the section rows written by the ingestion
Ingested == {x \in sections : ~\E y \in before.sections : y.id = x.id}

(* C32: with merge and ingestion running on one store without mutual        *)
(* exclusion, a section can be left referring to a bill that merge deleted; *)
(* every such section is one the ingestion wrote with a bill id it had      *)
(* resolved before merge's delete, and the sections merge found in the      *)
(* store are never left so.                                                 *)
C32_MergeIngestUnsafe ==
    /\ [](\A x \in Dangling :
            /\ x \in Ingested
            /\ x.bill_id \notin merge.masters
            /\ \/ \E j \in DOMAIN ing[1].sec : ing[1].sec[j].bill_id = x.bill_id
               \/ task[1] = "ok")
    /\ [][(Dangling' # Dangling) =>
            \/ /\ bills' # bills /\ merge.pc = "delete"
               /\ \E x \in Ingested : x.bill_id \in merge.dups
            \/ /\ sections' # sections /\ bills' = bills
               /\ \E j \in DOMAIN ing[1].sec :
                     /\ ing[1].sec[j].pc = "insert"
                     /\ ing[1].sec[j].bill_id \notin BillIdsOf(bills)]_vars

\* merge and the ingestion have both ended and the section the ingestion
\* wrote refers to a bill that merge deleted
C32_Witness ==
    /\ merge.pc = "done"
    /\ task[1] = "ok"
    /\ \E x \in Dangling : x \in Ingested /\ x.bill_id \in BillIdsOf(before.bills)

----------------------------------------------------------------------------
(* SpecSkip: batch_process over a range in which one date has a sitting to  *)
(* ingest, one a sitting without sections and the others no data.           *)

\* date 1: the sitting of Scenario; date 2: a sitting with attendance lists
\* and no sections; no data on any later date
Sparse(d) ==
    CASE d = 1 -> Scenario(1)
      [] d = 2 -> [has_data |-> TRUE, sitting_no |-> 2, format |-> 1,
                   present |-> <<Alice>>, absent |-> <<Bob>>, sections |-> <<>>]
      [] OTHER -> NoSitting

SkipDates == 1..MaxSkipDates

SkipInit ==
    /\ StoreInit /\ ResolverIdle /\ JobsIdle
    /\ orch = OrchIdleRec
    /\ task = [d \in SkipDates |-> "pending"]
    /\ source = [d \in SkipDates |-> Sparse(d)]
    /\ ing = [d \in SkipDates |-> IngIdleRec]
    /\ sem = DB_SEMAPHORE
    /\ hist = <<>>
    /\ missed = [n \in MemberNames |-> 0]
    /\ lim = LimIdleRec

SkipNext == IngestNext(SkipDates)

SpecSkip == SkipInit /\ [][SkipNext]_vars

\* the rows of the store that belong to a date
RowsOfDate(d) ==
    {x \in sittings : x.date = d}
    \cup {x \in attendance \cup sections : x.sitting_id = SittingOfDate(d)}

(* C23: for a date on which the record source has no data, or a sitting     *)
(* without sections, the ingestion task ends with none and not with an      *)
(* error, the step that ends it writes nothing to the store, and the store  *)
(* never holds a sitting, attendance or section row of that date.           *)
C23_NoDataNoWrite ==
    /\ [](\A d \in DOMAIN source :
            (~source[d].has_data \/ source[d].sections = <<>>) =>
                /\ task[d] \in {"pending", "fetch", "none"}
                /\ RowsOfDate(d) = {})
    /\ [][\A d \in DOMAIN source :
            ((~source[d].has_data \/ source[d].sections = <<>>)
                 /\ task[d] = "fetch" /\ task'[d] # "fetch")
              => /\ task'[d] = "none"
                 /\ UNCHANGED storeVars]_vars

\* the run has ended: the date without data and the date without sections
\* gave none, the sitting of date 1 is in the store
C23_Witness ==
    /\ orch.pc = "done"
    /\ \E d1 \in DOMAIN source, d2 \in DOMAIN source :
          /\ ~source[d1].has_data /\ task[d1] = "none"
          /\ source[d2].has_data /\ source[d2].sections = <<>> /\ task[d2] = "none"
    /\ task[1] = "ok"
    /\ RowsOfDate(1) # {}

----------------------------------------------------------------------------
(* SpecRerun: batch_process run again and again on one store.               *)

RerunDates == 1..MaxRerunDates

RerunInit == IngestInit(RerunDates)

RerunNext ==
    \/ IngestNext(RerunDates)
    \/ BatchRestart

SpecRerun == RerunInit /\ [][RerunNext]_vars

(* C1: a run of batch_process over the dates the run before it ingested     *)
(* leaves the Section, Attendance and Bill row counts as that run left      *)
(* them.                                                                    *)
C1_ReingestIdempotent ==
    \A r \in 1..Len(hist) :
        (r > 1 /\ hist[r].dates = hist[r - 1].dates)
            => hist[r].counts = hist[r - 1].counts

----------------------------------------------------------------------------
(* SpecLimiter: the section tasks of one chunk and the limiter.  The        *)
(* sitting of date 1, a first reading of bill F, is in the store; the chunk *)
(* of the sitting of date 2 has n sections alike, each a debate on bill F   *)
(* without speakers, so that the tasks differ in nothing and are counted    *)
(* per await of process_section instead of being told apart.                *)

LimSection == SourceSection("bill", "BP", TitleF, <<>>, 1, <<>>)

LimInit ==
    /\ sittings = {SittingRow(SittingOfDate(1), 1, 1, 1), SittingRow(SittingOfDate(2), 2, 2, 1)}
    /\ members = {}
    /\ bills = {BillRow(1, TitleF, 1, 1, SittingOfDate(1), 1)}
    /\ sections = {SectionRow(1, SittingOfDate(1), 1, 1, "bill", "BI", TitleF, 1, 1)}
    /\ attendance = {}
    /\ speakers = {}
    /\ nextId = [members |-> 1, bills |-> 2, sections |-> 2]
    /\ ministries = Ministries
    /\ ResolverIdle /\ JobsIdle /\ OrchIdle
    /\ source = <<>> /\ ing = <<>> /\ hist = <<>> /\ missed = [n \in {} |-> 0]
    /\ sem = DB_SEMAPHORE
    /\ lim = LimIdleRec

LimFrame == UNCHANGED <<refVars, resolverVars, jobVars, orchVars, source, ing, hist, missed>>

\* batch_process.py:188-197, 219-230: the chunk's n tasks start and each
\* calls find_or_create_bill
LimStart(n) ==
    /\ lim = LimIdleRec
    /\ n <= section_chunk_size
    /\ lim' = [lim EXCEPT !.find = n]
    /\ UNCHANGED <<storeVars, sem>>
    /\ LimFrame

\* batch_process.py:230, db_async.py:66-92: a lookup of find_or_create_bill
\* returns the bill; the section supplies no ministry and no first reading,
\* so nothing is written and the task goes on to the limiter
LimBillFind ==
    /\ lim.find > 0
    /\ \E row \in SelectBillsByTitle(LimSection.title) :
         AfterBillLookup(row, None, None) = "sem"
    /\ lim' = [lim EXCEPT !.find = @ - 1, !.wait = @ + 1]
    /\ UNCHANGED <<storeVars, sem>>
    /\ LimFrame

\* batch_process.py:238: async with DB_SEMAPHORE
LimAcquire ==
    /\ lim.wait > 0
    /\ sem > 0
    /\ sem' = sem - 1
    /\ lim' = [lim EXCEPT !.wait = @ - 1, !.insert = @ + 1]
    /\ UNCHANGED storeVars
    /\ LimFrame

\* (mutant) the section insert returns without releasing the permit
LimSecInsert_mut ==
    /\ lim.insert > 0
    /\ \E row \in SelectBillsByTitle(LimSection.title) :
         sections' = sections \cup
            {SectionRow(nextId.sections, SittingOfDate(2), None, row.id,
                        LimSection.category, LimSection.section_type,
                        LimSection.title, LimSection.order, nextId.sections)}
    /\ nextId' = [nextId EXCEPT !.sections = @ + 1]
    /\ sem' = sem
    /\ lim' = [lim EXCEPT !.insert = @ - 1,
                          !.link = IF lim.spk = 0 THEN @ ELSE @ + 1,
                          !.done = IF lim.spk = 0 THEN @ + 1 ELSE @]
    /\ UNCHANGED <<sittings, members, bills, attendance, speakers>>
    /\ LimFrame

\* batch_process.py:239-266: INSERT INTO sections; the permit is released
LimSecInsert ==
    /\ lim.insert > 0
    /\ \E row \in SelectBillsByTitle(LimSection.title) :
         sections' = sections \cup
            {SectionRow(nextId.sections, SittingOfDate(2), None, row.id,
                        LimSection.category, LimSection.section_type,
                        LimSection.title, LimSection.order, nextId.sections)}
    /\ nextId' = [nextId EXCEPT !.sections = @ + 1]
    /\ sem' = sem + 1
    /\ lim' = [lim EXCEPT !.insert = @ - 1,
                          !.link = IF lim.spk = 0 THEN @ ELSE @ + 1,
                          !.done = IF lim.spk = 0 THEN @ + 1 ELSE @]
    /\ UNCHANGED <<sittings, members, bills, attendance, speakers>>
    /\ LimFrame

LimNext ==
    \/ \E n \in 1..MaxLimSections : LimStart(n)
    \/ LimBillFind
    \/ LimAcquire
    \/ LimSecInsert

SpecLimiter == LimInit /\ [][LimNext]_vars

\* the store-mutating calls in flight: find_or_create_bill and the section insert
InFlightWrites == lim.find + lim.insert

(* C9: at any instant the store-mutating calls in flight are at most the    *)
(* capacity of the limiter.                                                 *)
C9_LimiterGatesWrites == InFlightWrites <= DB_SEMAPHORE

----------------------------------------------------------------------------
(* SpecPhases: one ingest_session over a sitting of more sections than a    *)
(* chunk holds.  The sitting of date 2 and the members Alice and Bob are in *)
(* the store; the record of date 2 lists Alice present, Bob absent and n    *)
(* sections alike, each a debate on bill F in which Alice speaks.  The      *)
(* tasks of a gather differ in nothing and are counted per position; a task *)
(* that only takes the limiter, finds a member that exists and writes one   *)
(* row (process_attendance, process_speaker) is one step.                   *)

PhaseMembers == <<Alice, Bob>>

PhaseInit ==
    /\ sittings = {SittingRow(SittingOfDate(1), 1, 1, 1), SittingRow(SittingOfDate(2), 2, 2, 1)}
    /\ members = {[id |-> k, name |-> PhaseMembers[k].name] : k \in DOMAIN PhaseMembers}
    /\ bills = {BillRow(1, TitleF, 1, 1, SittingOfDate(1), 1)}
    /\ sections = {SectionRow(1, SittingOfDate(1), 1, 1, "bill", "BI", TitleF, 1, 1)}
    /\ attendance = {}
    /\ speakers = {}
    /\ nextId = [members |-> Len(PhaseMembers) + 1, bills |-> 2, sections |-> 2]
    /\ ministries = Ministries
    /\ ResolverIdle /\ JobsIdle /\ OrchIdle
    /\ source = <<>> /\ ing = <<>> /\ hist = <<>> /\ missed = [n \in {} |-> 0]
    /\ sem = DB_SEMAPHORE
    /\ lim = LimIdleRec

\* batch_process.py:169-180: the sitting row is there; the attendance tasks
\* of the present and the absent members are gathered
PhaseStart(n) ==
    /\ lim = LimIdleRec
    /\ lim' = [lim EXCEPT !.phase = "attendance", !.att = Len(PhaseMembers),
                          !.n = n, !.spk = 1]
    /\ UNCHANGED <<storeVars, sem>>
    /\ LimFrame

\* batch_process.py:206-215: process_attendance of a member
PhaseAttendance ==
    /\ lim.phase = "attendance"
    /\ lim.att > 0
    /\ sem > 0
    /\ LET mp == PhaseMembers[lim.att] IN
       \E row \in SelectMembersByName(mp.name) :
          attendance' = UpsertAttendance(attendance, SittingOfDate(2), row.id,
                                         lim.att = 1, mp.constituency, mp.appointment)
    /\ lim' = [lim EXCEPT !.att = @ - 1]
    /\ UNCHANGED <<sittings, members, bills, sections, speakers, nextId, sem>>
    /\ LimFrame

\* batch_process.py:179-197: the attendance gather returns; the tasks of the
\* first chunk start and each calls find_or_create_bill
PhaseSections ==
    /\ lim.phase = "attendance"
    /\ lim.att = 0
    /\ lim' = [lim EXCEPT !.phase = "sections", !.i = 0,
                          !.find = ChunkLen(lim.n, 0)]
    /\ UNCHANGED <<storeVars, sem>>
    /\ LimFrame

\* the section rows of the sitting that have no speaker link yet
Unlinked ==
    {x \in sections : /\ x.sitting_id = SittingOfDate(2)
                      /\ ~\E k \in speakers : k.section_id = x.id}

\* batch_process.py:258-276: process_speaker of a section whose row is
\* inserted; the gather of line 264 returns and process_section with it.  The
\* tasks being alike, the link written is that of the oldest such section.
PhaseSpeaker ==
    /\ lim.phase = "sections"
    /\ lim.link > 0
    /\ sem > 0
    /\ \E x \in Unlinked, row \in SelectMembersByName(PhaseMembers[1].name) :
          /\ \A y \in Unlinked : x.id <= y.id
          /\ speakers' = AddSectionSpeaker(speakers, x.id, row.id,
                                           PhaseMembers[1].constituency,
                                           PhaseMembers[1].appointment)
    /\ lim' = [lim EXCEPT !.link = @ - 1, !.done = @ + 1]
    /\ UNCHANGED <<sittings, members, bills, sections, attendance, nextId, sem>>
    /\ LimFrame

\* batch_process.py:188-204: the chunk's gather returns; the next chunk of
\* section tasks, or return session_id
PhaseChunkDone ==
    /\ lim.phase = "sections"
    /\ lim.done = ChunkLen(lim.n, lim.i)
    /\ LET next == lim.i + section_chunk_size IN
       IF next < lim.n
          THEN lim' = [lim EXCEPT !.i = next, !.done = 0,
                                  !.find = ChunkLen(lim.n, next)]
          ELSE lim' = [lim EXCEPT !.phase = "done"]
    /\ UNCHANGED <<storeVars, sem>>
    /\ LimFrame

PhaseNext ==
    \/ \E n \in 1..MaxPhaseSections : PhaseStart(n)
    \/ PhaseAttendance
    \/ PhaseSections
    \/ LimBillFind
    \/ LimAcquire
    \/ LimSecInsert
    \/ PhaseSpeaker
    \/ PhaseChunkDone

SpecPhases == PhaseInit /\ [][PhaseNext]_vars

\* the section tasks started and not yet returned
SectionsInFlight == lim.find + lim.wait + lim.insert + lim.link

PhaseRows == {x \in sections : x.sitting_id = SittingOfDate(2)}

PhaseAttended == {x \in attendance : x.sitting_id = SittingOfDate(2)}

(* C30: within one ingest_session no section sub-step has started while an  *)
(* attendance write is outstanding; at most 20 section tasks run at a time  *)
(* and a chunk starts only when every section before it has its row and its *)
(* speaker link; a section row carries the bill resolved for it, and a      *)
(* speaker link refers to a section row that is already inserted.           *)
C30_PhaseBoundaries ==
    /\ (lim.att > 0 \/ Cardinality(PhaseAttended) < Len(PhaseMembers))
          => (SectionsInFlight + lim.done = 0 /\ PhaseRows = {})
    /\ SectionsInFlight + lim.done <= section_chunk_size
    /\ lim.i > 0 => Cardinality(PhaseRows \ Unlinked) >= lim.i
    /\ Cardinality(PhaseRows) = lim.i + lim.link + lim.done
    /\ \A x \in PhaseRows : \E b \in bills : b.id = x.bill_id /\ b.title = x.title
    /\ \A k \in speakers : \E x \in PhaseRows : x.id = k.section_id

\* the second chunk of a sitting of more than 20 sections is being processed
C30_Witness ==
    /\ lim.i = section_chunk_size
    /\ lim.link > 0
    /\ Cardinality(PhaseRows) > section_chunk_size
    /\ Cardinality(PhaseAttended) = Len(PhaseMembers)

----------------------------------------------------------------------------
(* SpecLive: one run of batch_process over a date range of up to two        *)
(* chunks, the scheduler fair.  The store is that of SpecPhases; the record *)
(* source has a sitting on date 2 only, Alice present, Bob absent and n     *)
(* sections alike without speakers, n at least the capacity of the limiter. *)
(* The tasks of that sitting are counted per position as in SpecLimiter and *)
(* SpecPhases; the section INSERT may raise while its task holds a permit.  *)

LiveDates == 1..MaxLiveDates

\* the date of the sitting whose rows the counted tasks write
LiveDate == CHOOSE d \in LiveDates : SittingOfDate(d) = SittingOfDate(2)

LiveSections == DB_SEMAPHORE..MaxLiveSections

LiveSource(n) ==
    [has_data |-> TRUE, sitting_no |-> 2, format |-> 1,
     present |-> <<Alice>>, absent |-> <<Bob>>,
     sections |-> [k \in 1..n |-> LimSection]]

LiveInit ==
    /\ sittings = {SittingRow(SittingOfDate(1), 1, 1, 1), SittingRow(SittingOfDate(2), 2, 2, 1)}
    /\ members = {[id |-> k, name |-> PhaseMembers[k].name] : k \in DOMAIN PhaseMembers}
    /\ bills = {BillRow(1, TitleF, 1, 1, SittingOfDate(1), 1)}
    /\ sections = {SectionRow(1, SittingOfDate(1), 1, 1, "bill", "BI", TitleF, 1, 1)}
    /\ attendance = {}
    /\ speakers = {}
    /\ nextId = [members |-> Len(PhaseMembers) + 1, bills |-> 2, sections |-> 2]
    /\ ministries = Ministries
    /\ ResolverIdle /\ JobsIdle
    /\ orch = OrchIdleRec
    /\ task = [d \in LiveDates |-> "pending"]
    /\ \E n \in LiveSections :
         source = [d \in LiveDates |-> IF d = LiveDate THEN LiveSource(n) ELSE NoSitting]
    /\ ing = [d \in LiveDates |-> IngIdleRec]
    /\ sem = DB_SEMAPHORE
    /\ hist = <<>>
    /\ missed = [n \in {} |-> 0]
    /\ lim = LimIdleRec

LiveFrame == UNCHANGED <<refVars, resolverVars, jobVars, source, ing, hist, missed>>

\* batch_process.py:146-179: the sitting upsert, then the attendance tasks
LiveSitting ==
    /\ task[LiveDate] = "sitting"
    /\ sittings' = UpsertSitting(sittings, LiveDate, source[LiveDate].sitting_no,
                                 source[LiveDate].format)
    /\ lim' = [LimIdleRec EXCEPT
                 !.phase = "attendance",
                 !.att = Len(source[LiveDate].present) + Len(source[LiveDate].absent),
                 !.n = Len(source[LiveDate].sections)]
    /\ task' = [task EXCEPT ![LiveDate] = "write"]
    /\ UNCHANGED <<members, bills, sections, attendance, speakers, nextId, sem, orch>>
    /\ LiveFrame

\* batch_process.py:199-204: the last chunk's gather has returned; return session_id
LiveReturn ==
    /\ task[LiveDate] = "write"
    /\ lim.phase = "done"
    /\ task' = [task EXCEPT ![LiveDate] = "ok"]
    /\ UNCHANGED <<storeVars, sem, lim, orch>>
    /\ LiveFrame

\* batch_process.py:238-253: the INSERT raises inside "async with
\* DB_SEMAPHORE"; leaving the block releases the permit, the exception
\* leaves process_section, the gather of line 197 and ingest_session
LiveInsertRaises ==
    /\ task[LiveDate] = "write"
    /\ lim.insert > 0
    /\ sem' = sem + 1
    /\ lim' = [lim EXCEPT !.insert = @ - 1]
    /\ task' = [task EXCEPT ![LiveDate] = "failed"]
    /\ UNCHANGED <<storeVars, orch>>
    /\ LiveFrame

\* batch_process.py:519, 595: gather re-raises, batch_process ends and
\* asyncio.run cancels the tasks still running; a task cancelled inside
\* "async with DB_SEMAPHORE" releases its permit on the way out
LiveAbort ==
    /\ orch.pc = "gather"
    /\ \E d \in SeqRange(ChunkOf(orch.dates, orch.i)) : task[d] = "failed"
    /\ orch' = [orch EXCEPT !.pc = "aborted"]
    /\ task' = [d \in DOMAIN task |-> IF task[d] \in Running THEN "cancelled" ELSE task[d]]
    /\ sem' = sem + lim.insert
    /\ lim' = [lim EXCEPT !.phase = "cancelled", !.att = 0, !.find = 0,
                          !.wait = 0, !.insert = 0, !.link = 0]
    /\ UNCHANGED storeVars
    /\ LiveFrame

\* the steps that are a call returning or the event loop running a ready task
LiveProgress ==
    \/ \E start_date \in LiveDates, end_date \in LiveDates :
          BatchStart(start_date, end_date)
    \/ GatherReturns
    \/ ChunkSleep
    \/ BatchFinish
    \/ \E d \in LiveDates : IngestFetch(d)
    \/ LiveSitting
    \/ PhaseAttendance
    \/ PhaseSections
    \/ LimBillFind
    \/ LimAcquire
    \/ LimSecInsert
    \/ PhaseChunkDone
    \/ LiveReturn
    \/ LiveAbort

LiveNext == LiveProgress \/ LiveInsertRaises

\* the asyncio event loop runs every ready callback, and every awaited fetch
\* and store call is taken to complete
SpecLive == LiveInit /\ [][LiveNext]_vars /\ WF_vars(LiveProgress)

LiveRaised == \E d \in DOMAIN task : task[d] \in {"failed", "cancelled"}

----------------------------------------------------------------------------
(* SpecMembers: find_or_create_member called sequentially, each call        *)
(* returning before the next is issued (db_sqlite.py:72-91; db_async.py     *)
(* 41-55 with every call awaited on its own).                               *)

ResolverNames == MemberNames \cup {"Dan"}

MemberCall(name, ret, found) ==
    [op |-> "find_or_create_member", name |-> name, ret |-> ret, found |-> found]

find_or_create_member(name) ==
    LET rows == SelectMembersByName(name) IN
    /\ IF MemberFound(rows)
          THEN \E row \in rows :
                 /\ members' = members
                 /\ nextId' = nextId
                 /\ call' = MemberCall(name, row.id, TRUE)
          ELSE /\ nextId.members <= MaxMemberRows
               /\ members' = InsertMember(members, nextId.members, name)
               /\ nextId' = [nextId EXCEPT !.members = @ + 1]
               /\ call' = MemberCall(name, nextId.members, FALSE)
    /\ UNCHANGED <<sittings, bills, sections, attendance, speakers, refVars,
                   firstRet, jobVars, orchVars, ingestVars>>

MembersInit == StoreInit /\ ResolverIdle /\ JobsIdle /\ OrchIdle /\ IngestIdle

MembersNext == \E name \in ResolverNames : find_or_create_member(name)

SpecMembers == MembersInit /\ [][MembersNext]_vars

\* the call just returned the id of the one row of its name
ReturnsRowOfName ==
    call.op = "find_or_create_member" =>
        /\ Cardinality(SelectMembersByName(call.name)) = 1
        /\ \A m \in members : m.name = call.name => m.id = call.ret

\* a call whose name has a row changes nothing; any other call adds one row;
\* no row is removed or changed
MemberStep ==
    /\ members \subseteq members'
    /\ IF \E m \in members : m.name = call'.name
          THEN members' = members /\ call'.found
          ELSE Cardinality(members') = Cardinality(members) + 1 /\ ~call'.found

(* C11: find_or_create_member called sequentially returns the id of the row *)
(* of the name if there is one and inserts nothing, and otherwise inserts   *)
(* exactly one row and returns its id; there is one member row per name     *)
(* resolved, and no member row is ever deleted or modified.                 *)
C11_MemberResolve ==
    /\ [](ReturnsRowOfName /\ \A name \in ResolverNames :
                                 Cardinality(SelectMembersByName(name)) <= 1)
    /\ [][MemberStep]_vars

\* a repeated call has returned the row of an earlier call, other rows present
C11_Witness ==
    /\ call.op = "find_or_create_member"
    /\ call.found
    /\ Cardinality(members) >= 2

----------------------------------------------------------------------------
(* SpecAttendance: add_sitting_attendance called sequentially on a store    *)
(* that holds the sittings and members the calls refer to.                  *)

NameList == <<"Alice", "Bob", "Carol", "Dan">>

LinkSittings == 1..MaxLinkSittings
LinkMembers == 1..MaxLinkMembers
LinkSections == 1..MaxLinkSections
Constituencies == {"East", "West"}
Designations == {<<>>, <<"Minister", "for", "Health">>}

\* the store after the sittings, their sections and the members have been written
LinkStoreInit ==
    /\ ministries = Ministries
    /\ sittings = {SittingRow(SittingOfDate(d), d, d, 1) : d \in LinkSittings}
    /\ members = {[id |-> i, name |-> NameList[i]] : i \in LinkMembers}
    /\ bills = {}
    /\ sections = {SectionRow(j, SittingOfDate(1), None, None, "question", "OA",
                              TitleG, j, j) : j \in LinkSections}
    /\ attendance = {}
    /\ speakers = {}
    /\ nextId = [members |-> MaxLinkMembers + 1, bills |-> 1,
                 sections |-> MaxLinkSections + 1]

AttendanceCall(sitting_id, member_id, present, constituency, designation) ==
    [op |-> "add_sitting_attendance", sitting_id |-> sitting_id,
     member_id |-> member_id, present |-> present,
     constituency |-> constituency, designation |-> designation]

add_sitting_attendance(sitting_id, member_id, present, constituency, designation) ==
    /\ attendance' = UpsertAttendance(attendance, sitting_id, member_id, present,
                                      constituency, designation)
    /\ call' = AttendanceCall(sitting_id, member_id, present, constituency, designation)
    /\ UNCHANGED <<sittings, members, bills, sections, speakers, nextId, refVars,
                   firstRet, jobVars, orchVars, ingestVars>>

AttendanceInit == LinkStoreInit /\ ResolverIdle /\ JobsIdle /\ OrchIdle /\ IngestIdle

AttendanceNext ==
    \E sitting_id \in LinkSittings, member_id \in LinkMembers, present \in BOOLEAN,
       constituency \in Constituencies, designation \in Designations :
        add_sitting_attendance(sitting_id, member_id, present, constituency, designation)

SpecAttendance == AttendanceInit /\ [][AttendanceNext]_vars

AttendanceOf(A, sitting_id, member_id) ==
    {a \in A : a.sitting_id = sitting_id /\ a.member_id = member_id}

\* one row at most per pair, and the row of the pair just written carries
\* the values of that call
LatestCallStored ==
    /\ \A sitting_id \in LinkSittings, member_id \in LinkMembers :
          Cardinality(AttendanceOf(attendance, sitting_id, member_id)) <= 1
    /\ call.op = "add_sitting_attendance" =>
          AttendanceOf(attendance, call.sitting_id, call.member_id)
              = {[sitting_id |-> call.sitting_id, member_id |-> call.member_id,
                  present |-> call.present, constituency |-> call.constituency,
                  designation |-> call.designation]}

\* a call leaves the rows of every other pair as they were
OtherPairsKept ==
    \A sitting_id \in LinkSittings, member_id \in LinkMembers :
        <<sitting_id, member_id>> # <<call'.sitting_id, call'.member_id>> =>
            AttendanceOf(attendance', sitting_id, member_id)
                = AttendanceOf(attendance, sitting_id, member_id)

(* C12: after any sequence of add_sitting_attendance calls there is one     *)
(* attendance row per (sitting, member) pair written, and it carries the    *)
(* presence, constituency and designation of the most recent call for that  *)
(* pair.                                                                    *)
C12_AttendanceLastWins ==
    /\ []LatestCallStored
    /\ [][OtherPairsKept]_vars

\* a call has overwritten all three values of a pair written before, while
\* another pair's row is in the table
C12_Witness ==
    /\ call.op = "add_sitting_attendance"
    /\ Cardinality(attendance) = 2
    /\ call.present /\ call.constituency = "West" /\ call.designation # <<>>
    /\ \E a \in attendance : a.member_id # call.member_id /\ ~a.present

----------------------------------------------------------------------------
(* SpecSpeakers: add_section_speaker called sequentially, in the version of *)
(* db_async.py and db_sqlite.py and in the version of db.py.                *)

SpeakerCall(section_id, member_id, constituency, designation, raised) ==
    [op |-> "add_section_speaker", section_id |-> section_id,
     member_id |-> member_id, constituency |-> constituency,
     designation |-> designation, raised |-> raised]

SpeakersFrame == UNCHANGED <<sittings, members, bills, sections, attendance, nextId,
                            refVars, firstRet, jobVars, orchVars, ingestVars>>

\* db_async.py:101-107, db_sqlite.py:228-240
add_section_speaker(section_id, member_id, constituency, designation) ==
    /\ speakers' = AddSectionSpeaker(speakers, section_id, member_id,
                                     constituency, designation)
    /\ call' = SpeakerCall(section_id, member_id, constituency, designation, FALSE)
    /\ SpeakersFrame

\* db.py:50-55: INSERT INTO section_speakers without a conflict clause; the
\* pair is the table's unique key (the conflict target of db_async.py:105),
\* so the insert of a pair the table holds raises, and execute_query lets the
\* error out
add_section_speaker_sync(section_id, member_id, constituency, designation) ==
    LET held == \E x \in speakers : x.section_id = section_id /\ x.member_id = member_id
    IN /\ speakers' = IF held THEN speakers
                      ELSE speakers \cup {[section_id |-> section_id,
                                           member_id |-> member_id,
                                           constituency |-> constituency,
                                           designation |-> designation]}
       /\ call' = SpeakerCall(section_id, member_id, constituency, designation, held)
       /\ SpeakersFrame

SpeakersInit == LinkStoreInit /\ ResolverIdle /\ JobsIdle /\ OrchIdle /\ IngestIdle

SpeakersNext ==
    \/ \E section_id \in LinkSections, member_id \in LinkMembers,
          constituency \in Constituencies, designation \in Designations :
           add_section_speaker(section_id, member_id, constituency, designation)
    \/ \E section_id \in LinkSections, member_id \in LinkMembers,
          constituency \in Constituencies, designation \in Designations :
           add_section_speaker_sync(section_id, member_id, constituency, designation)

SpecSpeakers == SpeakersInit /\ [][SpeakersNext]_vars

SpeakersOf(K, section_id, member_id) ==
    {x \in K : x.section_id = section_id /\ x.member_id = member_id}

(* C13: add_section_speaker is an idempotent insert: there is one speaker   *)
(* row at most per (section, member) pair and one for the pair just linked, *)
(* no call raises, and a row once written is never changed by a later call. *)
C13_SpeakerIdempotent ==
    /\ [](/\ \A section_id \in LinkSections, member_id \in LinkMembers :
               Cardinality(SpeakersOf(speakers, section_id, member_id)) <= 1
          /\ call.op = "add_section_speaker" =>
               /\ ~call.raised
               /\ SpeakersOf(speakers, call.section_id, call.member_id) # {})
    /\ [][speakers \subseteq speakers']_vars

----------------------------------------------------------------------------
(* SpecSittings: the sitting write of the ingestor, once per ingestion of a *)
(* date, the fetch reporting the date's metadata anew each time.  format    *)
(* stands for the metadata columns other than sitting_no (parliament,       *)
(* session_no, volume_no, format; url is a function of the date).           *)

SittingNos == 1..MaxSittingNo
Formats == 1..MaxFormat

SittingCall(op, date, sitting_no, format, ret) ==
    [op |-> op, date |-> date, sitting_no |-> sitting_no,
     format |-> format, ret |-> ret]

SittingWrites == {"ingest_session", "create_or_update_session"}

SittingsFrame == UNCHANGED <<members, bills, sections, attendance, speakers, nextId,
                            refVars, firstRet, jobVars, orchVars, ingestVars>>

\* batch_process.py:153-166 (process_hansard.py:94-110 has the same statement)
ingest_session_sitting(date, sitting_no, format) ==
    /\ sittings' = UpsertSitting(sittings, date, sitting_no, format)
    /\ call' = SittingCall("ingest_session", date, sitting_no, format,
                            SittingOfDate(date))
    /\ SittingsFrame

\* db_sqlite.py:154-186: select by date, then update every column or insert
create_or_update_session(date, sitting_no, format) ==
    /\ sittings' = IF \E x \in sittings : x.date = date
                      THEN {IF x.date = date
                               THEN [x EXCEPT !.sitting_no = sitting_no, !.format = format]
                               ELSE x : x \in sittings}
                      ELSE sittings \cup {SittingRow(SittingOfDate(date), date,
                                                    sitting_no, format)}
    /\ call' = SittingCall("create_or_update_session", date, sitting_no, format,
                            SittingOfDate(date))
    /\ SittingsFrame

SittingsInit == StoreInit /\ ResolverIdle /\ JobsIdle /\ OrchIdle /\ IngestIdle

SittingsNext ==
    \/ \E date \in DateVals, sitting_no \in SittingNos, format \in Formats :
          ingest_session_sitting(date, sitting_no, format)
    \/ \E date \in DateVals, sitting_no \in SittingNos, format \in Formats :
          create_or_update_session(date, sitting_no, format)

SpecSittings == SittingsInit /\ [][SittingsNext]_vars

(* C14: the sitting write is an upsert on date: there is one sitting row at *)
(* most per date, a date's row keeps its id over re-ingestion, and after an *)
(* ingestion of a date every metadata field of its row has the value of     *)
(* that fetch.                                                              *)
C14_SittingUpsert ==
    /\ [](/\ \A x \in sittings, y \in sittings : x.date = y.date => x = y
          /\ call.op \in SittingWrites =>
               \E x \in sittings :
                  /\ x.date = call.date /\ x.id = call.ret
                  /\ x.sitting_no = call.sitting_no
                  /\ x.format = call.format)
    /\ [][\A x \in sittings : \E y \in sittings' : y.date = x.date /\ y.id = x.id]_vars

----------------------------------------------------------------------------
(* The ministry attribution of batch_process_sqlite.py. *)

\* DESIGNATION_TO_MINISTRY of batch_process_sqlite.py:36-53, in dict order
\* (three of its sixteen entries)
DESIGNATION_TO_MINISTRY_sqlite ==
    << <<(<<"Prime", "Minister">>), "PMO">>,
       <<(<<"Minister", "for", "Finance">>), "MOF">>,
       <<(<<"Minister", "for", "Health">>), "MOH">> >>

\* FULL_NAME_TO_MINISTRY, in dict order (three of its sixteen entries)
FULL_NAME_TO_MINISTRY ==
    << <<(<<"Prime", "Minister", "'s", "Office">>), "PMO">>,
       <<(<<"Ministry", "of", "Finance">>), "MOF">>,
       <<(<<"Ministry", "of", "Health">>), "MOH">> >>

\* the acronym of the first entry of a table, in dict order, among matches
FirstOf(table, matches) ==
    IF matches = {} THEN NoAcronym
    ELSE table[CHOOSE k \in matches : \A k2 \in matches : k <= k2][2]

\* batch_process_sqlite.py:75-83: keyword.lower() in designation.lower()
detect_ministry_from_designation_sqlite(designation) ==
    IF designation = <<>> THEN NoAcronym
    ELSE FirstOf(DESIGNATION_TO_MINISTRY_sqlite,
                 {k \in 1..Len(DESIGNATION_TO_MINISTRY_sqlite) :
                     Contains(LowerSeq(designation),
                              LowerSeq(DESIGNATION_TO_MINISTRY_sqlite[k][1]))})

\* batch_process_sqlite.py:86-106: the first match that is not PMO, and PMO
\* when only PMO matched
detect_ministry_from_content_sqlite(content_plain) ==
    IF content_plain = <<>> THEN NoAcronym
    ELSE LET preamble == SubSeq(content_plain, 1, Min(1000, Len(content_plain)))
             matches == {k \in 1..Len(DESIGNATION_TO_MINISTRY_sqlite) :
                            Contains(preamble, DESIGNATION_TO_MINISTRY_sqlite[k][1])}
             others == {k \in matches : DESIGNATION_TO_MINISTRY_sqlite[k][2] # "PMO"}
         IN IF others # {} THEN FirstOf(DESIGNATION_TO_MINISTRY_sqlite, others)
            ELSE IF matches # {} THEN "PMO"
            ELSE NoAcronym

\* batch_process_sqlite.py:108-116
RECURSIVE detect_ministry_from_speakers_sqlite(_)
detect_ministry_from_speakers_sqlite(sp) ==
    IF sp = <<>> THEN NoAcronym
    ELSE LET designation == Head(sp).appointment
             ministry == IF designation # <<>>
                            /\ Contains(LowerSeq(designation), <<"minister">>)
                            THEN detect_ministry_from_designation_sqlite(designation)
                            ELSE NoAcronym
         IN IF ministry # NoAcronym THEN ministry
            ELSE detect_ministry_from_speakers_sqlite(Tail(sp))

\* batch_process_sqlite.py:118-123
detect_ministry_from_title(title) ==
    FirstOf(FULL_NAME_TO_MINISTRY,
            {k \in 1..Len(FULL_NAME_TO_MINISTRY) :
                Contains(title, FULL_NAME_TO_MINISTRY[k][1])})

\* batch_process_sqlite.py:125-133
detect_ministry_sqlite(section) ==
    LET ministry == detect_ministry_from_content_sqlite(section.content_plain)
    IN IF ministry # NoAcronym THEN ministry
       ELSE detect_ministry_from_speakers_sqlite(section.speakers)

\* batch_process_sqlite.py:151-165: ministry_acronym of process_section
ministry_acronym_sqlite(section) ==
    IF section.category = "adjournment_motion" THEN NoAcronym
    ELSE IF section.category = "motion"
        THEN LET ministry == detect_ministry_from_title(section.title)
             IN IF ministry # NoAcronym THEN ministry
                ELSE detect_ministry_from_content_sqlite(section.content_plain)
    ELSE detect_ministry_sqlite(section)

\* batch_process.py:219: ministry_acronym of process_section
ministry_acronym(section) == detect_ministry(section)

----------------------------------------------------------------------------
(* SpecAttribution: the ministry attribution of process_section, in         *)
(* batch_process.py and in batch_process_sqlite.py, applied to one section  *)
(* of the record source after the other.                                    *)

Erin == [name |-> "Erin", constituency |-> "Central",
         appointment |-> <<"Prime", "Minister", "and", "Minister", "for", "Finance">>]

AttributionCategories == {"question", "motion", "adjournment_motion"}

AttributionTitles == {<<"Budget">>, <<"Ministry", "of", "Health", "Budget">>}

AttributionContents ==
    {<<>>,
     <<"To", "ask", "the", "Minister", "for", "Health">>,
     <<"The", "Prime", "Minister", "and", "Minister", "for", "Finance">>,
     <<"The", "Minister", "in", "the", "Prime", "Minister", "'s", "Office", "and",
       "Second", "Minister", "for", "Finance">>}

AttributionSpeakers == {<<>>, <<Carol>>, <<Alice, Carol>>, <<Erin>>}

AttributionSections ==
    {SourceSection(category, "OA", title, content_plain, 1, sp) :
        category \in AttributionCategories, title \in AttributionTitles,
        content_plain \in AttributionContents, sp \in AttributionSpeakers}

AttributionCall(op, section, content, acronym, ministry_id) ==
    [op |-> op, section |-> section, content |-> content, acronym |-> acronym,
     ministry_id |-> ministry_id]

AttributionFrame == UNCHANGED <<storeVars, refVars, firstRet, jobVars, orchVars,
                               ingestVars>>

\* batch_process.py:217-220
process_section_ministry(section) ==
    /\ call' = AttributionCall("process_section", section,
                               detect_ministry_from_content(section.content_plain),
                               ministry_acronym(section),
                               find_ministry_by_acronym(ministry_acronym(section)))
    /\ AttributionFrame

\* batch_process_sqlite.py:147-165
process_section_ministry_sqlite(section) ==
    /\ call' = AttributionCall("process_section_sqlite", section,
                   detect_ministry_from_content_sqlite(section.content_plain),
                   ministry_acronym_sqlite(section),
                   find_ministry_by_acronym(ministry_acronym_sqlite(section)))
    /\ AttributionFrame

AttributionInit == StoreInit /\ ResolverIdle /\ JobsIdle /\ OrchIdle /\ IngestIdle

AttributionNext ==
    \/ \E section \in AttributionSections : process_section_ministry(section)
    \/ \E section \in AttributionSections : process_section_ministry_sqlite(section)

SpecAttribution == AttributionInit /\ [][AttributionNext]_vars

Attributed == call.op \in {"process_section", "process_section_sqlite"}

(* C16: a section of category "adjournment_motion" resolves to no ministry, *)
(* whatever its content, title and speakers.                                *)
C16_AdjournmentExempt ==
    (Attributed /\ call.section.category = "adjournment_motion") =>
        call.acronym = NoAcronym /\ call.ministry_id = None

\* the designation table of the pipeline of the call
DesignationTable ==
    IF call.op = "process_section" THEN DESIGNATION_TO_MINISTRY
    ELSE DESIGNATION_TO_MINISTRY_sqlite

\* the table entries whose designation occurs in a text
Occurring(text) ==
    {k \in 1..Len(DesignationTable) : Contains(text, DesignationTable[k][1])}

AcronymsOf(table, K) == {table[k][2] : k \in K}

(* C17: the content scan defers PMO: when a designation of another ministry *)
(* occurs in the preamble its acronym is the result even if a PMO           *)
(* designation occurs too, PMO is the result only when no other designation *)
(* occurs, and "Prime Minister and Minister for Finance" gives MOF.         *)
C17_PmoDeferred ==
    Attributed =>
        LET preamble == call.section.content_plain
            others == {k \in Occurring(preamble) : DesignationTable[k][2] # "PMO"}
        IN /\ others # {} => call.content \in AcronymsOf(DesignationTable, others)
           /\ (others = {} /\ Occurring(preamble) # {}) => call.content = "PMO"
           /\ Occurring(preamble) = {} => call.content = NoAcronym
           /\ Contains(preamble, <<"Prime", "Minister", "and", "Minister", "for",
                                   "Finance">>) => call.content = "MOF"

\* a speaker whose designation holds "minister" in any case and a designation
\* of the table
IsMinister(sp) ==
    /\ Contains(LowerSeq(sp.appointment), <<"minister">>)
    /\ Occurring(sp.appointment) # {}

(* C18: when no designation occurs in the content, the first speaker in     *)
(* list order whose designation holds "minister" (in any case) and a        *)
(* designation of the table gives the section the acronym of that           *)
(* designation.                                                             *)
C18_SpeakerFallback ==
    (Attributed /\ call.section.category = "question" /\ call.content = NoAcronym) =>
        LET sp == call.section.speakers IN
        \A i \in 1..Len(sp) :
            (IsMinister(sp[i]) /\ \A j \in 1..(i - 1) : ~IsMinister(sp[j])) =>
                call.acronym \in AcronymsOf(DesignationTable, Occurring(sp[i].appointment))

(* C36: on the speaker fallback of batch_process_sqlite.py a designation    *)
(* that holds both "Prime Minister" and "Minister for Finance" gives MOF,   *)
(* not PMO.                                                                 *)
C36_SpeakerPmoDeferred ==
    (/\ call.op = "process_section_sqlite"
     /\ call.section.category = "question"
     /\ call.content = NoAcronym
     /\ call.section.speakers # <<>>
     /\ Contains(call.section.speakers[1].appointment, <<"Prime", "Minister">>)
     /\ Contains(call.section.speakers[1].appointment, <<"Minister", "for", "Finance">>))
        => call.acronym = "MOF"

(* C19: for a section of category "motion" a full ministry name in the      *)
(* title decides the ministry, whatever the content names; the content is   *)
(* scanned only when the title names none.                                  *)
C19_MotionTitleFirst ==
    (Attributed /\ call.section.category = "motion") =>
        LET named == {k \in 1..Len(FULL_NAME_TO_MINISTRY) :
                         Contains(call.section.title, FULL_NAME_TO_MINISTRY[k][1])}
        IN IF named # {}
              THEN call.acronym \in AcronymsOf(FULL_NAME_TO_MINISTRY, named)
              ELSE call.acronym = call.content

----------------------------------------------------------------------------
(* SpecSummaries: a summary pass over one sitting already ingested, by      *)
(* batch_process.py (--only-summaries, --only-blank-summaries) or by        *)
(* generate_summaries_sqlite.py (--sittings, with or without --only-blank). *)
(* The generator is the remote model: a call raises, or returns no content, *)
(* or a string.  Every section and bill of the sitting has text long enough *)
(* to pass the length filters of the queries.                               *)

\* re.sub(r'[ \t\xa0]+', ' ', content): a run of blanks becomes one blank
RECURSIVE collapse(_)
collapse(s) ==
    IF Len(s) < 2 THEN s
    ELSE IF s[1] = " " /\ s[2] = " " THEN collapse(Tail(s))
    ELSE <<s[1]>> \o collapse(Tail(s))

\* what the generator may answer: no content, "", " ", " a", "b", "a  b"
GenContents ==
    {NoText} \cup {Text(c) : c \in {<<>>, <<" ">>, <<" ", "a">>, <<"b">>,
                                    <<"a", " ", " ", "b">>}}

GenOutcomes ==
    {[raises |-> TRUE, content |-> NoText]}
    \cup {[raises |-> FALSE, content |-> c] : c \in GenContents}

\* (mutant) the content is returned as it came, not stripped
generate_summary_mut(text, outcome) ==
    IF text = <<>> \/ outcome.raises THEN NoText ELSE outcome.content

\* batch_process.py:97-125: None for no text; None when the call or the
\* handling of its response raises (.strip() of no content does); else the
\* content stripped, its runs of blanks collapsed
generate_summary(text, outcome) ==
    IF text = <<>> THEN NoText
    ELSE IF outcome.raises \/ outcome.content.none THEN NoText
    ELSE Text(collapse(trim(outcome.content.text)))

\* generate_summaries_sqlite.py:28-48: "if response.text:" before the strip
generate_summary_sqlite(outcome) ==
    IF outcome.raises THEN NoText
    ELSE IF outcome.content.none \/ outcome.content.text = <<>> THEN NoText
    ELSE Text(collapse(trim(outcome.content.text)))

\* "if summary:"
Truthy(summary) == ~summary.none /\ summary.text # <<>>

\* the text handed to the generator for a section or a bill
PromptText == <<"t">>

\* a summary written by an earlier pass
OldSummary == Text(<<"o">>)

\* the store: sitting 1 with a question and the debate of bill 1, each
\* summary set by an earlier pass or still missing
SummariesInit ==
    /\ \E s1 \in {NoText, OldSummary}, s2 \in {NoText, OldSummary},
          sb \in {NoText, OldSummary} :
          /\ bills = {[BillRow(1, TitleF, None, None, None, 1) EXCEPT !.summary = sb]}
          /\ sections =
               {[SectionRow(1, 1, None, None, "question", "OA", TitleG, 1, 1)
                    EXCEPT !.summary = s1],
                [SectionRow(2, 1, None, 1, "bill", "BP", TitleF, 2, 2)
                    EXCEPT !.summary = s2]}
    /\ ministries = Ministries
    /\ sittings = {SittingRow(1, 1, 1, 1)}
    /\ members = {}
    /\ attendance = {}
    /\ speakers = {}
    /\ nextId = [t \in {"members", "bills", "sections"} |->
                   CASE t = "members" -> 1 [] t = "bills" -> 2 [] OTHER -> 3]
    /\ ResolverIdle /\ JobsIdle /\ OrchIdle /\ IngestIdle

SummariesFrame == UNCHANGED <<sittings, members, attendance, speakers, nextId,
                              refVars, resolverVars, merge, clean, before,
                              orchVars, ingestVars>>

\* the sittings to process (batch_process.py:536-556,
\* generate_summaries_sqlite.py:160-164)
SittingsToProcess(pipeline, only_blanks) ==
    IF pipeline = "async" /\ only_blanks
       THEN {x.id : x \in {y \in sittings :
                              \E sec \in sections :
                                  sec.sitting_id = y.id /\ sec.summary.none}}
       ELSE {x.id : x \in sittings}

\* the sections to summarize (batch_process.py:281-287,
\* generate_summaries_sqlite.py:53-65)
SectionsToSummarize(pipeline, only_blanks, sitting_ids) ==
    {x.id : x \in
        {y \in sections :
            /\ y.sitting_id \in sitting_ids
            /\ IF pipeline = "async" THEN y.summary.none
               ELSE /\ y.category # "bill"
                    /\ y.section_type \notin {"BI", "BP"}
                    /\ (only_blanks => y.summary.none)}}

\* the bills to summarize (batch_process.py:354-361,
\* generate_summaries_sqlite.py:98-109)
BillsToSummarize(pipeline, only_blanks, sitting_ids) ==
    {b.id : b \in
        {c \in bills :
            IF pipeline = "async"
               THEN \E sec \in sections :
                      sec.bill_id = c.id /\ sec.sitting_id \in sitting_ids
               ELSE /\ \E sec \in sections :
                         /\ sec.bill_id = c.id /\ sec.sitting_id \in sitting_ids
                         /\ sec.section_type = "BP"
                    /\ (only_blanks => c.summary.none)}}

\* the pass starts: the sittings, then the section query of the sitting
SummariesStart(pipeline, only_blanks) ==
    /\ gen.pc = "idle"
    /\ LET ids == SittingsToProcess(pipeline, only_blanks) IN
       gen' = [gen EXCEPT !.pipeline = pipeline, !.only_blanks = only_blanks,
                          !.sitting_ids = ids,
                          !.pc = IF ids = {} THEN "done" ELSE "sections",
                          !.todo = SectionsToSummarize(pipeline, only_blanks, ids)]
    /\ UNCHANGED <<sections, bills>>
    /\ SummariesFrame

\* UPDATE sections SET summary = $1 WHERE id = $2
SetSectionSummary(S, id, summary) ==
    {IF x.id = id THEN [x EXCEPT !.summary = summary] ELSE x : x \in S}

\* UPDATE bills SET summary = $1 WHERE id = $2
SetBillSummary(B, id, summary) ==
    {IF b.id = id THEN [b EXCEPT !.summary = summary] ELSE b : b \in B}

\* generate_question_summary / generate_section_summary of one section
\* (batch_process.py:323-350, generate_summaries_sqlite.py:83-93)
SummarizeSection(id, outcome) ==
    /\ gen.pc = "sections"
    /\ id \in gen.todo
    /\ LET summary == IF gen.pipeline = "async"
                         THEN generate_summary(PromptText, outcome)
                         ELSE generate_summary_sqlite(outcome)
       IN /\ sections' = IF Truthy(summary)
                            THEN SetSectionSummary(sections, id, summary)
                            ELSE sections
          /\ gen' = [gen EXCEPT !.todo = @ \ {id},
                       !.last = [kind |-> "section", target |-> id,
                                 outcome |-> outcome, ret |-> summary,
                                 wrote |-> Truthy(summary)]]
    /\ UNCHANGED bills
    /\ SummariesFrame

\* the section tasks have ended; the bill query of the sitting
SummariesBills ==
    /\ gen.pc = "sections"
    /\ gen.todo = {}
    /\ gen' = [gen EXCEPT !.pc = "bills",
                 !.todo = BillsToSummarize(gen.pipeline, gen.only_blanks,
                                           gen.sitting_ids)]
    /\ UNCHANGED <<sections, bills>>
    /\ SummariesFrame

\* the loop body for one bill (batch_process.py:368-417,
\* generate_summaries_sqlite.py:116-140)
SummarizeBill(id, outcome) ==
    /\ gen.pc = "bills"
    /\ id \in gen.todo
    /\ LET summary == IF gen.pipeline = "async"
                         THEN generate_summary(PromptText, outcome)
                         ELSE generate_summary_sqlite(outcome)
       IN /\ bills' = IF Truthy(summary)
                         THEN SetBillSummary(bills, id, summary)
                         ELSE bills
          /\ gen' = [gen EXCEPT !.todo = @ \ {id},
                       !.last = [kind |-> "bill", target |-> id,
                                 outcome |-> outcome, ret |-> summary,
                                 wrote |-> Truthy(summary)]]
    /\ UNCHANGED sections
    /\ SummariesFrame

\* the bill loop has ended
SummariesDone ==
    /\ gen.pc = "bills"
    /\ gen.todo = {}
    /\ gen' = [gen EXCEPT !.pc = "done"]
    /\ UNCHANGED <<sections, bills>>
    /\ SummariesFrame

SummariesNext ==
    \/ \E pipeline \in {"async", "sqlite"}, only_blanks \in BOOLEAN :
          SummariesStart(pipeline, only_blanks)
    \/ \E id \in 1..2, outcome \in GenOutcomes : SummarizeSection(id, outcome)
    \/ SummariesBills
    \/ \E id \in 1..1, outcome \in GenOutcomes : SummarizeBill(id, outcome)
    \/ SummariesDone

SpecSummaries == SummariesInit /\ [][SummariesNext]_vars

\* the generator failed or gave nothing: it raised, or returned no content,
\* or an empty string
GenFailed(outcome) ==
    outcome.raises \/ outcome.content.none \/ outcome.content.text = <<>>

\* the summaries of the section and bill rows, by table and id
SummaryOf(S, id) == (CHOOSE x \in S : x.id = id).summary

(* C27 (as stated): whenever the generator fails or returns empty,          *)
(* generate_summary returns None, the caller writes nothing and every       *)
(* summary field is left as it was.                                         *)
C27_ReturnsNone ==
    [][(gen'.last # gen.last /\ GenFailed(gen'.last.outcome)) =>
          /\ gen'.last.ret.none
          /\ ~gen'.last.wrote
          /\ UNCHANGED <<sections, bills>>]_vars

(* C27 (amended): whenever the generator fails or returns no content, an    *)
(* empty string or blanks only, generate_summary returns None or the empty  *)
(* string, the caller writes nothing and every summary field is left as it  *)
(* was; the pass goes on with its next target.                              *)
C27_FailureContained ==
    [][(gen'.last # gen.last
          /\ (GenFailed(gen'.last.outcome)
                \/ trim(gen'.last.outcome.content.text) = <<>>)) =>
          /\ gen'.last.ret.none \/ gen'.last.ret.text = <<>>
          /\ ~gen'.last.wrote
          /\ UNCHANGED <<sections, bills>>
          /\ gen'.pc = gen.pc]_vars

\* the generator raised for the bill, whose summary of an earlier pass is
\* still in place
C27_Witness ==
    /\ gen.pc = "bills"
    /\ gen.last.kind = "bill"
    /\ gen.last.outcome.raises
    /\ gen.last.ret.none
    /\ ~gen.last.wrote
    /\ SummaryOf(bills, 1) = OldSummary

(* C28: during a pass that summarizes blanks only, no section row and no    *)
(* bill row whose summary is set has its summary changed.                   *)
C28_RetryOnlyBlank ==
    [][gen.only_blanks =>
          /\ \A x \in sections :
                ~x.summary.none => SummaryOf(sections', x.id) = x.summary
          /\ \A b \in bills :
                ~b.summary.none => SummaryOf(bills', b.id) = b.summary]_vars

----------------------------------------------------------------------------
(* SpecModes: one run of batch_process with its mode flags                  *)
(* (batch_process.py:498-570) on a store that holds the sitting of date 2,  *)
(* ingested by an earlier run and not yet summarized.  The record source    *)
(* has the sitting of Scenario on date 1 and nothing on any other date.     *)

ModeDates == 1..MaxModeDates

Modes ==
    [no_summaries : BOOLEAN, only_summaries : BOOLEAN,
     only_blank_summaries : BOOLEAN, summarize_members : BOOLEAN]

ModesInit ==
    /\ sittings = {SittingRow(SittingOfDate(2), 2, 2, 1)}
    /\ members = {}
    /\ bills = {BillRow(1, TitleG, None, None, None, 1)}
    /\ sections = {SectionRow(1, SittingOfDate(2), None, None, "question", "OA",
                              TitleG, 1, 1),
                   SectionRow(2, SittingOfDate(2), None, 1, "bill", "BP",
                              TitleG, 2, 2)}
    /\ attendance = {}
    /\ speakers = {}
    /\ nextId = [members |-> 1, bills |-> 2, sections |-> 3]
    /\ ministries = Ministries
    /\ ResolverIdle /\ JobsIdle
    /\ orch = OrchIdleRec
    /\ task = [d \in ModeDates |-> "pending"]
    /\ source = [d \in ModeDates |-> IF d = 1 THEN Scenario(1) ELSE NoSitting]
    /\ ing = [d \in ModeDates |-> IngIdleRec]
    /\ sem = DB_SEMAPHORE
    /\ hist = <<>>
    /\ missed = [n \in MemberNames |-> 0]
    /\ lim = LimIdleRec

\* "if not (only_summaries or only_blank_summaries or summarize_members)"
Ingests(mode) ==
    ~(mode.only_summaries \/ mode.only_blank_summaries \/ mode.summarize_members)

\* batch_process.py:498-519: the date range; the first chunk's tasks unless
\* the mode skips the ingestion
ModeStart(start_date, end_date, mode) ==
    /\ orch.pc = "idle"
    /\ OrchFrame /\ hist' = hist
    /\ LET dates == DateRange(start_date, end_date) IN
       IF Ingests(mode) /\ dates # <<>>
          THEN /\ orch' = [orch EXCEPT !.pc = "gather", !.dates = dates, !.i = 0,
                                      !.start_date = start_date,
                                      !.end_date = end_date, !.mode = mode]
               /\ task' = StartTasks(task, ChunkOf(dates, 0))
          ELSE /\ orch' = [orch EXCEPT !.pc = "post", !.dates = dates,
                                      !.start_date = start_date,
                                      !.end_date = end_date, !.mode = mode]
               /\ task' = task

\* batch_process.py:528-556: refresh_member_list_view returns.  With
\* no_summaries the next await is close_pool; with summarize_members it is
\* generate_member_summaries; with only_summaries or only_blank_summaries
\* the sittings query; with none of these line 556 reads rows, which no
\* branch has assigned, and the UnboundLocalError ends batch_process
ModeRefresh ==
    /\ orch.pc = "post"
    /\ orch' = [orch EXCEPT !.pc =
                  IF orch.mode.no_summaries THEN "close"
                  ELSE IF orch.mode.summarize_members THEN "members"
                  ELSE IF orch.mode.only_summaries \/ orch.mode.only_blank_summaries
                     THEN "rows"
                  ELSE "aborted"]
    /\ task' = task
    /\ OrchFrame /\ hist' = hist

\* batch_process.py:536-556: the sittings of the date range, or those of them
\* with a section without summary
ModeRows ==
    /\ orch.pc = "rows"
    /\ LET ranged == {x \in sittings : /\ x.date >= orch.start_date
                                       /\ x.date <= orch.end_date}
           rows == IF orch.mode.only_summaries THEN ranged
                   ELSE {x \in ranged : \E sec \in sections :
                                           sec.sitting_id = x.id /\ sec.summary.none}
       IN orch' = [orch EXCEPT !.pc = "loop", !.left = {x.id : x \in rows}]
    /\ task' = task
    /\ OrchFrame /\ hist' = hist

ModeFrame == UNCHANGED <<storeVars, refVars, resolverVars, merge, clean, before,
                         task, ingestVars>>

\* batch_process.py:561-563, 281-287: the next sitting of the loop and its
\* section query, or the end of the loop
ModeLoop ==
    /\ orch.pc = "loop"
    /\ IF orch.left = {}
          THEN /\ orch' = [orch EXCEPT !.pc = "close"]
               /\ gen' = gen
          ELSE \E sid \in orch.left :
                 /\ orch' = [orch EXCEPT !.pc = "pass", !.left = @ \ {sid},
                                         !.passed = @ \cup {sid}]
                 /\ gen' = [GenIdleRec EXCEPT
                              !.pc = "sections", !.pipeline = "async",
                              !.only_blanks = orch.mode.only_blank_summaries,
                              !.sitting_ids = {sid},
                              !.todo = SectionsToSummarize("async",
                                          orch.mode.only_blank_summaries, {sid})]
    /\ ModeFrame

\* batch_process.py:562-563: generate_bill_summaries_for_session returns
ModePassDone ==
    /\ orch.pc = "pass"
    /\ gen.pc = "done"
    /\ orch' = [orch EXCEPT !.pc = "loop"]
    /\ gen' = gen
    /\ ModeFrame

\* batch_process.py:566-567, 418-496: generate_member_summaries; it writes
\* member_summaries only
ModeMembers ==
    /\ orch.pc = "members"
    /\ orch' = [orch EXCEPT !.pc = "close"]
    /\ task' = task
    /\ OrchFrame /\ hist' = hist

\* batch_process.py:569-570: close_pool
ModeClose ==
    /\ orch.pc = "close"
    /\ orch' = [orch EXCEPT !.pc = "done", !.pool = "closed"]
    /\ task' = task
    /\ OrchFrame /\ hist' = hist

ModesNext ==
    \/ \E start_date \in ModeDates, end_date \in ModeDates, mode \in Modes :
          ModeStart(start_date, end_date, mode)
    \/ GatherReturns
    \/ ChunkSleep
    \/ IngestTasks(ModeDates)
    \/ ModeRefresh
    \/ ModeRows
    \/ ModeLoop
    \/ \E id \in gen.todo, outcome \in GenOutcomes : SummarizeSection(id, outcome)
    \/ SummariesBills
    \/ \E id \in gen.todo, outcome \in GenOutcomes : SummarizeBill(id, outcome)
    \/ SummariesDone
    \/ ModePassDone
    \/ ModeMembers
    \/ ModeClose

SpecModes == ModesInit /\ [][ModesNext]_vars

IdsOf(R) == {x.id : x \in R}

(* C37: a run of batch_process without mode flags, once its chunks are      *)
(* ingested, runs the summary passes over exactly the sittings it ingested  *)
(* and ends with the store pool closed; a run with only_summaries,          *)
(* only_blank_summaries or summarize_members starts no ingestion task and   *)
(* inserts no sitting, section, attendance, member or bill row.             *)
C37_Modes ==
    /\ []((orch.mode = DefaultMode /\ orch.pc \in {"done", "aborted"}) =>
            /\ orch.pc = "done"
            /\ orch.pool = "closed"
            /\ orch.passed = SeqRange(orch.ids))
    /\ [](~Ingests(orch.mode) => \A d \in DOMAIN task : task[d] = "pending")
    /\ [][~Ingests(orch.mode) =>
            /\ UNCHANGED <<sittings, members, attendance, speakers>>
            /\ IdsOf(sections') = IdsOf(sections)
            /\ IdsOf(bills') = IdsOf(bills)]_vars

====
